---- MODULE Spec2Model ----
(***************************************************************************)
(* Live session orchestrator of voicekit (hook useLiveApi and the stores   *)
(* of lib/state.ts): the turn ledger (useLogStore), the confirmation slot  *)
(* (useUI), the background task list (useTaskStore) and the tool-call      *)
(* dispatcher onToolCall.                                                  *)
(***************************************************************************)
EXTENDS Integers, Sequences, FiniteSets, Bags, TLC

VARIABLES
    user,           \* the `user` prop of useLiveApi, reduced to what the code reads of it
    tools,          \* useTools.tools: names of the webhook tools, other than the memory tools, that are enabled and have a postWebhookUrl
    turns,          \* useLogStore.turns
    batches,        \* one record per toolcall event: the closure state of one onToolCall invocation
    confirmation,   \* useUI.confirmation
    tasks,          \* useTaskStore.tasks (newest first)
    sent,           \* the calls of client.sendToolResponse, in order
    approved,       \* history: the calls whose confirmation the user approved
    promoTimer,     \* the timeout of promoTimerRef.current is armed
    pending,        \* asynchronous work started by handleTurnComplete and not yet finished
    utt,            \* history: the current uninterrupted run of transcript deltas of one role
    tokens,         \* useUserStore.tokens
    jobs,           \* the detached generation coroutines, indexed by the id of their task
    client,         \* the GenAILiveClient of the hook: its status and its transport session
    transport,      \* the transport sessions that are opening or open
    connected,      \* the `connected` state of useLiveApi
    driver,         \* the refs of startBackgroundTasks / stopBackgroundTasks and what they started
    sessionLog,     \* history: the calls of connect and disconnect, the sessions opened, the chimes played
    poller,         \* the closure of one pollForResult call
    audio,          \* the AudioStreamer of the hook and the AudioRecorder of ControlTray
    wire,           \* history: the frames sent on the transport, as the keep-alive interval sees them
    sink,           \* the queue of the AudioStreamer, with the history of what arrived and what was played
    listeners,      \* the effect that binds the handlers, and the listeners each client object holds
    paid,           \* history: the token balance that was loaded for the user
    toolStore       \* useTools.tools, with the last operation of the store that was called

\* The state of the session and of its keep-alive driver.
sessionVars == <<client, transport, connected, driver, sessionLog>>

\* State that only the specifications of its own section change.
moreVars == <<wire, sink, listeners, paid, toolStore>>

\* What the dispatcher and the ledger handlers neither read nor write.
offstage == <<tokens, sessionVars, poller, audio, moreVars>>

vars == <<user, tools, turns, batches, confirmation, tasks, sent, approved,
          promoTimer, pending, utt, tokens, jobs, client, transport, connected,
          driver, sessionLog, poller, audio, moreVars>>

(***************************************************************************)
(* Bounds of the model.                                                    *)
(***************************************************************************)
MaxBatches == 2    \* toolcall events received
MaxCalls == 2      \* function calls received, over all batches
MaxTurns == 3      \* length of the turn ledger
MaxText == 2       \* characters and citations of transcript, content and typed text received in all
MaxPending == 1    \* asynchronous continuations of handleTurnComplete in flight
MaxPolls == 7      \* polls of one video operation before it is done
MaxSlides == 2     \* slides of a presentation outline
MaxConnects == 2   \* calls of connect()
MaxDisconnects == 2 \* calls of disconnect()
MaxInflight == 3
MaxChars == 14
MaxTicks == 2
MaxChunks == 3
MaxInterrupts == 2
MaxRuns == 3   \* status requests of one poller awaiting their response
MaxTools == 4  \* tools in the store

(***************************************************************************)
(* Static tables of the dispatcher.                                        *)
(***************************************************************************)
SENSITIVE_TOOLS ==
    {"place_call", "send_gmail_message", "send_whatsapp_message",
     "send_telegram_message", "send_messenger_message",
     "post_to_facebook_page", "post_on_linkedin"}

\* A native table that also lists a background tool.
NATIVE_WITH_VIDEO ==
    {"create_presentation_outline", "summarize_text", "translate_text",
     "draft_social_media_post", "analyze_sentiment", "extract_keywords",
     "generate_quiz", "write_code_snippet", "explain_code_snippet",
     "generate_video"}

NATIVE_GEMINI_TOOLS ==
    {"create_presentation_outline", "summarize_text", "translate_text",
     "draft_social_media_post", "analyze_sentiment", "extract_keywords",
     "generate_quiz", "write_code_snippet", "explain_code_snippet"}

ADMIN_ONLY_TOOLS == {"write_code_snippet", "generate_video"}

\* The webhook tools whose request body carries user!.id.
MEMORY_TOOLS == {"recall_from_conversation", "search_long_term_memory"}

PRESENTATION_TOOL_COST == 50
IMAGE_TOOL_COST == 25
DOCUMENT_TOOL_COST == 10

\* The tool names the backend issues in the model: one admin-only background
\* tool, one admin-only native tool, one native tool, one sensitive tool and
\* one tool of the default webhook strategy.
ToolNames ==
    {"generate_video", "write_code_snippet", "summarize_text",
     "send_gmail_message", "search_web"}

\* The tools of executeWebhookTool in the model: one with a webhook of its
\* own and one memory tool.
WebhookNames == {"search_web", "search_long_term_memory"}

\* The tools that start a detached generation coroutine.
BackgroundTools == {"generate_video", "create_business_presentation"}

IMAGE_TOOLS == {"generate_image", "edit_image"}

\* The executor that the if/else chain of executeTool hands a name to.
ExecutorOf(name) ==
    IF name = "send_gmail_message" THEN "executeSendGmailTool"
    ELSE IF name = "send_whatsapp_message" THEN "executeSendWhatsAppTool"
    ELSE IF name = "create_calendar_event" THEN "executeCalendarEventTool"
    ELSE IF name \in IMAGE_TOOLS
      THEN (IF name = "generate_image" THEN "executeImageGenerationTool"
            ELSE "executeImageEditingTool")
    ELSE IF name = "generate_video" THEN "executeVideoGenerationTool"
    ELSE IF name = "create_business_presentation"
      THEN "executePresentationGenerationTool"
    ELSE IF name = "create_document" THEN "executeDocumentGenerationTool"
    ELSE IF name \in NATIVE_GEMINI_TOOLS THEN "native"
    ELSE "executeWebhookTool"

\* The names that a branch of the chain tests for by name.
DedicatedNames ==
    {"send_gmail_message", "send_whatsapp_message", "create_calendar_event",
     "create_document"} \cup IMAGE_TOOLS \cup BackgroundTools

\* The user prop: the administrator, another user with an email, a user
\* without an email, or null.
Users == {"admin", "other", "noemail", "none"}

\* user?.email is truthy
HasEmail(u) == u \in {"admin", "other"}

\* user.email === 'masterdee@aiteksoftware.site'
IsAdminEmail(u) == u = "admin"

\* The condition of the restricted branch of onToolCall.
IsRestricted(u, name) ==
    HasEmail(u) /\ name \in ADMIN_ONLY_TOOLS /\ ~IsAdminEmail(u)

RestrictedMsg == "restricted to administrators"
NativeMsg == "will be handled directly in my response"
CancelledMsg == "The user cancelled the action."
VideoStartedMsg == "OK. I have started generating the video."
NotConfiguredMsg == "Error: not configured or enabled"
PresentationStartedMsg == "OK. I have started generating the presentation."
DocNoTokensMsg == "Error: You need 10 tokens for this"
NoTokensMsg == "Error: You need tokens for a presentation"
OkMsg == "OK"
ErrorMsg == "Error: failed"

NoConfirmation == [kind |-> "null"]

\* No run of transcript deltas is in progress.
NoUtt == [active |-> FALSE]

\* pending.save[r]: the handleTurnComplete invocations awaiting their upsert
\* whose captured `last` turn has role r ("none": there was no turn);
\* pending.analysis: runBackgroundAnalysis calls awaiting the model;
\* pending.promo: triggerPromotionalMessage calls awaiting the model.
SavedRoles == {"user", "agent", "system", "none"}
NoPending == [save |-> [r \in SavedRoles |-> 0], analysis |-> 0, promo |-> 0]

(***************************************************************************)
(* useLogStore                                                             *)
(***************************************************************************)
\* A ConversationTurn.  text is a sequence of characters; toolUseRequest is
\* <<>> or the one call of the request.  timestamp, attachments and isPromo
\* are read by no handler and are left out.
Turn(role, text, isFinal, chunks, toolUse) ==
    [role |-> role, text |-> text, isFinal |-> isFinal,
     groundingChunks |-> chunks, toolUseRequest |-> toolUse]

\* addTurn: append at the end.
addTurn(ts, turn) == Append(ts, turn)

\* updateLastTurn for an update of text and isFinal.
updateLastTurn(ts, update) ==
    IF Len(ts) = 0 THEN ts
    ELSE [ts EXCEPT ![Len(ts)] =
            [f \in DOMAIN ts[Len(ts)] |->
                IF f \in DOMAIN update THEN update[f] ELSE ts[Len(ts)][f]]]

(***************************************************************************)
(* useTaskStore                                                            *)
(***************************************************************************)
\* A progress value.  The presentation executor computes fractions, so a
\* progress is kept exactly, as the quotient num / den with den > 0.
Pct(n) == [num |-> n, den |-> 1]

\* p <= q for two progress values.
Leq(p, q) == p.num * q.den <= q.num * p.den

\* An addTask that starts every task at progress 0.
addTaskFromZero(tk, id, name, progress) ==
    <<[id |-> id, name |-> name, status |-> "running",
       progress |-> Pct(0), result |-> "none"]>> \o tk

\* addTask: put the new task on top.  id stands for the fresh id
\* `${Date.now()}-${Math.random()}`; message and timestamp are left out.
addTask(tk, id, name, progress) ==
    <<[id |-> id, name |-> name, status |-> "running",
       progress |-> progress, result |-> "none"]>> \o tk

\* updateTask: merge the updates into the task of that id, if it is listed.
updateTask(tk, id, updates) ==
    [k \in 1..Len(tk) |->
        IF tk[k].id = id
          THEN [f \in DOMAIN tk[k] |->
                   IF f \in DOMAIN updates THEN updates[f] ELSE tk[k][f]]
          ELSE tk[k]]

IsNotTask(t, id) == t.id # id

removeTask(tk, id) == SelectSeq(tk, LAMBDA t : IsNotTask(t, id))

IsRunning(t) == t.status = "running"

\* A clear that empties the list.
clearAllTasks(tk) == <<>>

clearCompletedTasks(tk) == SelectSeq(tk, IsRunning)

\* The detached coroutine an executor starts for its task.  progress is the
\* local variable of the video coroutine, polls the number of its polls,
\* step and total are currentAssetStep and totalAssetSteps.
\* seen is history: the progress values the coroutine has given its task,
\* starting with the one of addTask.
NewJob(kind, progress) ==
    [kind |-> kind, pc |-> "start", progress |-> 0, polls |-> 0, step |-> 0,
     total |-> 0, seen |-> <<progress>>]

(***************************************************************************)
(* onToolCall                                                              *)
(***************************************************************************)
Response(fc, result) == [id |-> fc.id, name |-> fc.name, result |-> result]

\* The system turn logged for an accepted call.
TriggerTurn(fc) ==
    Turn("system", <<"Triggering function call", fc.name>>, TRUE, <<>>, <<fc>>)

\* A push that sends the aggregate response without the length test.
PushAndAlwaysSend(st, b, n, response) ==
    LET fr == Append(st.fr, response)
    IN [st EXCEPT !.fr = fr,
                  !.sent = Append(st.sent, [batch |-> b, functionResponses |-> fr])]

\* functionResponses.push(response) followed by the length test that guards
\* client.sendToolResponse, as in executeTool and onCancel.
\* st is the dispatcher state: what the handler writes (turns, fr, status,
\* exec, pendingResult, confirmation, tasks, jobs, sent) and what it only
\* reads (user, tokens).
PushAndMaybeSend(st, b, n, response) ==
    LET fr == Append(st.fr, response)
    IN [st EXCEPT !.fr = fr,
                  !.sent = IF Len(fr) = n
                           THEN Append(st.sent, [batch |-> b, functionResponses |-> fr])
                           ELSE st.sent]

\* The restricted branch: push without the length test, then continue.
PushRestricted(st, fc) ==
    [st EXCEPT !.fr = Append(st.fr, Response(fc, RestrictedMsg))]

\* The synchronous part of executeTool for call i of batch b: everything up
\* to the first await that leaves the handler.  A native tool pushes its
\* response at once; generate_video creates its task and returns a resolved
\* promise; a webhook tool that is not configured returns a resolved promise
\* with an error, and so does create_business_presentation without the
\* tokens for it; a memory tool, which is taken to be enabled with its
\* default URL, reads user!.id before its try block, so with no user the
\* promise of executeTool rejects and nothing is pushed;
\* the other executors await the network.
ExecuteToolSync(st, b, n, i, fc, tl) ==
    LET st1 == [st EXCEPT !.exec[i] = @ + 1]
    IN IF fc.name = "send_gmail_message"
         THEN [st1 EXCEPT !.status[i] = "running"]
       ELSE IF fc.name = "generate_image"
         THEN [st1 EXCEPT !.status[i] = "generating"]
       ELSE IF fc.name = "generate_video"
         THEN [st1 EXCEPT !.tasks = addTask(st.tasks, Len(st.jobs) + 1,
                                            "generate_video", Pct(5)),
                          !.jobs = Append(st.jobs, NewJob("video", Pct(5))),
                          !.status[i] = "returning",
                          !.pendingResult[i] = VideoStartedMsg]
       ELSE IF fc.name = "create_business_presentation"
         THEN IF st.tokens < PRESENTATION_TOOL_COST
                THEN [st1 EXCEPT !.status[i] = "returning",
                                 !.pendingResult[i] = NoTokensMsg]
              ELSE [st1 EXCEPT !.tasks = addTask(st.tasks, Len(st.jobs) + 1,
                                                 "create_business_presentation", Pct(0)),
                               !.jobs = Append(st.jobs, NewJob("presentation", Pct(0))),
                               !.status[i] = "returning",
                               !.pendingResult[i] = PresentationStartedMsg]
       ELSE IF fc.name = "create_document"
         THEN IF st.tokens < DOCUMENT_TOOL_COST
                THEN [st1 EXCEPT !.status[i] = "returning",
                                 !.pendingResult[i] = DocNoTokensMsg]
              ELSE [st1 EXCEPT !.status[i] = "generating"]
       ELSE IF fc.name \in NATIVE_GEMINI_TOOLS
         THEN [PushAndMaybeSend(st1, b, n, Response(fc, NativeMsg))
                 EXCEPT !.status[i] = "done"]
       ELSE IF fc.name \notin tl /\ fc.name \notin MEMORY_TOOLS
         THEN [st1 EXCEPT !.status[i] = "returning",
                          !.pendingResult[i] = NotConfiguredMsg]
       ELSE IF fc.name \in MEMORY_TOOLS /\ st.user = "none"
         THEN [st1 EXCEPT !.status[i] = "threw"]
       ELSE [st1 EXCEPT !.status[i] = "running"]

\* The onCancel callback handed to requestConfirmation.  A variant that runs
\* the tool all the same comes first.
onCancelExecuting(st, b, n, i, fc) ==
    [PushAndMaybeSend([st EXCEPT !.exec[i] = @ + 1], b, n, Response(fc, CancelledMsg))
        EXCEPT !.status[i] = "cancelled"]

\* A denial that marks the call cancelled and collects no entry for it.
onCancelDroppingEntry(st, b, n, i, fc) ==
    [st EXCEPT !.status[i] = "cancelled"]

onCancel(st, b, n, i, fc) ==
    [PushAndMaybeSend(st, b, n, Response(fc, CancelledMsg))
        EXCEPT !.status[i] = "cancelled"]

\* A loop body without the confirmation gate.
LoopBodyUngated(st, b, calls, i, u, tl) ==
    LET fc == calls[i]
    IN IF IsRestricted(u, fc.name)
         THEN [PushRestricted(st, fc) EXCEPT !.status[i] = "restricted"]
       ELSE ExecuteToolSync([st EXCEPT !.turns = addTurn(st.turns, TriggerTurn(fc))],
                            b, Len(calls), i, fc, tl)

\* A loop body that logs the call before it looks at the restriction.
LoopBodyLoggingFirst(st, b, calls, i, u, tl) ==
    LET fc == calls[i]
        n == Len(calls)
        st1 == [st EXCEPT !.turns = addTurn(st.turns, TriggerTurn(fc))]
    IN IF IsRestricted(u, fc.name)
         THEN [PushRestricted(st1, fc) EXCEPT !.status[i] = "restricted"]
       ELSE IF fc.name \in SENSITIVE_TOOLS
         THEN [st1 EXCEPT
                 !.confirmation = [kind |-> "tool", batch |-> b, idx |-> i],
                 !.status[i] = "awaiting"]
       ELSE ExecuteToolSync(st1, b, n, i, fc, tl)

\* One iteration of `for (const fc of toolCall.functionCalls)`.
LoopBody(st, b, calls, i, u, tl) ==
    LET fc == calls[i]
        n == Len(calls)
    IN IF IsRestricted(u, fc.name)
         THEN [PushRestricted(st, fc) EXCEPT !.status[i] = "restricted"]
       ELSE LET st1 == [st EXCEPT !.turns = addTurn(st.turns, TriggerTurn(fc))]
            IN IF fc.name \in SENSITIVE_TOOLS
                 THEN [st1 EXCEPT
                         !.confirmation = [kind |-> "tool", batch |-> b, idx |-> i],
                         !.status[i] = "awaiting"]
               ELSE ExecuteToolSync(st1, b, n, i, fc, tl)

RECURSIVE Loop(_, _, _, _, _, _)
Loop(st, b, calls, i, u, tl) ==
    IF i > Len(calls) THEN st
    ELSE Loop(LoopBody(st, b, calls, i, u, tl), b, calls, i + 1, u, tl)

\* The continuations of executeTool whose executor returned an already
\* resolved promise run as microtasks right after the handler, in call order.
RECURSIVE Drain(_, _, _, _)
Drain(st, b, calls, i) ==
    IF i > Len(calls) THEN st
    ELSE IF st.status[i] = "returning"
      THEN Drain([PushAndMaybeSend(st, b, Len(calls),
                                   Response(calls[i], st.pendingResult[i]))
                    EXCEPT !.status[i] = "done"],
                 b, calls, i + 1)
    ELSE Drain(st, b, calls, i + 1)

\* Number of calls received so far, over all batches.
RECURSIVE CallCount(_)
CallCount(bs) == IF bs = <<>> THEN 0 ELSE Len(Head(bs).calls) + CallCount(Tail(bs))

\* The batches the backend sends: at most MaxBatches batches of at most
\* MaxCalls calls in all, ids unique.
CallsOf(b, names) ==
    [i \in 1..Len(names) |-> [id |-> 10 * b + i, name |-> names[i]]]

NameSeqs == UNION {[1..n -> ToolNames] : n \in 1..MaxCalls}

DispatchState(b) ==
    [turns |-> turns,
     fr |-> batches[b].functionResponses,
     status |-> batches[b].status,
     exec |-> batches[b].exec,
     pendingResult |-> [i \in 1..Len(batches[b].calls) |-> "none"],
     confirmation |-> confirmation,
     tasks |-> tasks,
     jobs |-> jobs,
     sent |-> sent,
     user |-> user,
     tokens |-> tokens]

\* Writes a dispatcher state back to the variables.
Commit(st, b, bs) ==
    /\ turns' = st.turns
    /\ batches' = [bs EXCEPT ![b].functionResponses = st.fr,
                             ![b].status = st.status,
                             ![b].exec = st.exec]
    /\ confirmation' = st.confirmation
    /\ tasks' = st.tasks
    /\ jobs' = st.jobs
    /\ sent' = st.sent

NewBatch(calls) ==
    [calls |-> calls,
     functionResponses |-> <<>>,
     status |-> [i \in 1..Len(calls) |-> "new"],
     exec |-> [i \in 1..Len(calls) |-> 0]]

\* A batch as the backend may also send it: the ids are whatever the message
\* carries, so two calls of one batch may bear the same id.
CallsWithIds(names, ids) ==
    [i \in 1..Len(names) |-> [id |-> ids[i], name |-> names[i]]]

\* The handler of the 'toolcall' event, for the batch toolCall.functionCalls.
OnToolCallBatch(calls) ==
    /\ Len(batches) < MaxBatches
    /\ CallCount(batches) + Len(calls) <= MaxCalls
    /\ Len(turns) + Len(calls) <= MaxTurns
    /\ LET b == Len(batches) + 1
           bs == Append(batches, NewBatch(calls))
           st0 == [turns |-> turns, fr |-> <<>>,
                   status |-> [i \in 1..Len(calls) |-> "new"],
                   exec |-> [i \in 1..Len(calls) |-> 0],
                   pendingResult |-> [i \in 1..Len(calls) |-> "none"],
                   confirmation |-> confirmation, tasks |-> tasks, jobs |-> jobs,
                   sent |-> sent, user |-> user, tokens |-> tokens]
           st == Drain(Loop(st0, b, calls, 1, user, tools), b, calls, 1)
       IN Commit(st, b, bs)
    /\ utt' = NoUtt
    /\ UNCHANGED <<offstage, user, tools, approved, promoTimer, pending>>

OnToolCallWith(names) == OnToolCallBatch(CallsOf(Len(batches) + 1, names))

OnToolCall == \E names \in NameSeqs : OnToolCallWith(names)

\* A batch whose ids are not told apart by the backend.
OnToolCallAnyIds ==
    \E names \in NameSeqs :
    \E ids \in [1..Len(names) -> {10 * (Len(batches) + 1) + k : k \in 1..Len(names)}] :
        OnToolCallBatch(CallsWithIds(names, ids))

\* An executor that awaited the network returns (the fetch succeeded, or it
\* failed and the executor's catch built an error result); executeTool then
\* pushes the response and tests the length.
ExecutorReturns ==
    \E b \in 1..Len(batches) : \E i \in 1..Len(batches[b].calls) :
    \E result \in {OkMsg, ErrorMsg} :
        /\ batches[b].status[i] = "running"
        /\ LET st == PushAndMaybeSend(DispatchState(b), b, Len(batches[b].calls),
                                      Response(batches[b].calls[i], result))
           IN Commit([st EXCEPT !.status[i] = "done"], b, batches)
        /\ UNCHANGED <<offstage, user, tools, approved, promoTimer, pending, utt>>

(***************************************************************************)
(* ConfirmationModal and the other caller of requestConfirmation           *)
(***************************************************************************)
\* requestConfirmation: set({ confirmation: config })
requestConfirmation(config) == config

\* SettingsPage.handleDeleteTool
HandleDeleteTool ==
    \E t \in tools :
        /\ confirmation' = requestConfirmation([kind |-> "deleteTool", tool |-> t])
        /\ UNCHANGED <<offstage, user, tools, turns, batches, tasks, jobs, sent, approved,
                       promoTimer, pending, utt>>

\* handleConfirm: onConfirm(); clearConfirmation()
HandleConfirm ==
    /\ confirmation.kind # "null"
    /\ IF confirmation.kind = "tool"
         THEN LET b == confirmation.batch
                  i == confirmation.idx
                  calls == batches[b].calls
                  st == Drain(ExecuteToolSync(DispatchState(b), b, Len(calls), i,
                                              calls[i], tools),
                              b, calls, 1)
              IN /\ Commit([st EXCEPT !.confirmation = NoConfirmation], b, batches)
                 /\ approved' = approved \cup {<<b, i>>}
                 /\ tools' = tools
         ELSE /\ tools' = tools \ {confirmation.tool}
              /\ confirmation' = NoConfirmation
              /\ UNCHANGED <<turns, batches, tasks, jobs, sent, approved>>
    /\ UNCHANGED <<offstage, user, promoTimer, pending, utt>>

\* handleCancel: if (onCancel) onCancel(); clearConfirmation()
HandleCancel ==
    /\ confirmation.kind # "null"
    /\ IF confirmation.kind = "tool"
         THEN LET b == confirmation.batch
                  i == confirmation.idx
                  calls == batches[b].calls
                  st == onCancel(DispatchState(b), b, Len(calls), i, calls[i])
              IN Commit([st EXCEPT !.confirmation = NoConfirmation], b, batches)
         ELSE /\ confirmation' = NoConfirmation
              /\ UNCHANGED <<turns, batches, tasks, jobs, sent>>
    /\ UNCHANGED <<offstage, user, tools, approved, promoTimer, pending, utt>>

(***************************************************************************)
(* Transcript and content handlers of the turn ledger                      *)
(***************************************************************************)
Alphabet == {"a", "b"}

\* The texts one transcript delta or typed message carries.
Deltas == {<<"a">>, <<"b">>}

\* The parts of one content event (modelTurn.parts[*].text; an empty text
\* stands for a part without text) and its grounding chunks.
ContentParts == {<<>>, <<<<>>>>, <<<<"a">>>>, <<<<"a">>, <<"b">>>>, <<<<>>, <<"b">>>>}
GroundingChunks == {<<>>, <<"uri1">>}

\* Received characters and citations held by the user and agent turns (the
\* separators that handleContent inserts are not counted).
RECURSIVE TextSize(_)
TextSize(ts) ==
    IF ts = <<>> THEN 0
    ELSE (IF Head(ts).role = "system" THEN 0
          ELSE Cardinality({k \in 1..Len(Head(ts).text) : Head(ts).text[k] \in Alphabet})
               + Len(Head(ts).groundingChunks))
         + TextSize(Tail(ts))

WithinBounds(ts) == Len(ts) <= MaxTurns /\ TextSize(ts) <= MaxText

\* The append test without its isFinal conjunct.
CanAppendIgnoringFinal(ts, role) ==
    /\ Len(ts) > 0
    /\ ts[Len(ts)].role = role

\* last && last.role === role && !last.isFinal
CanAppend(ts, role) ==
    /\ Len(ts) > 0
    /\ ts[Len(ts)].role = role
    /\ ~ts[Len(ts)].isFinal

\* An input handler that overwrites the open turn's text with the delta.
handleInputTranscriptionOverwriting(ts, text, isFinal) ==
    IF Len(ts) > 0 /\ ts[Len(ts)].role = "user" /\ ~ts[Len(ts)].isFinal
    THEN updateLastTurn(ts, [text |-> text, isFinal |-> isFinal])
    ELSE addTurn(ts, Turn("user", text, isFinal, <<>>, <<>>))

\* An input handler that appends the delta and drops its final flag.
handleInputTranscriptionNeverFinal(ts, text, isFinal) ==
    IF CanAppend(ts, "user")
    THEN updateLastTurn(ts, [text |-> ts[Len(ts)].text \o text, isFinal |-> FALSE])
    ELSE addTurn(ts, Turn("user", text, isFinal, <<>>, <<>>))

handleInputTranscription(ts, text, isFinal) ==
    IF CanAppend(ts, "user")
    THEN updateLastTurn(ts, [text |-> ts[Len(ts)].text \o text, isFinal |-> isFinal])
    ELSE addTurn(ts, Turn("user", text, isFinal, <<>>, <<>>))

handleOutputTranscription(ts, text, isFinal) ==
    IF CanAppend(ts, "agent")
    THEN updateLastTurn(ts, [text |-> ts[Len(ts)].text \o text, isFinal |-> isFinal])
    ELSE addTurn(ts, Turn("agent", text, isFinal, <<>>, <<>>))

\* parts.map(p => p.text).filter(Boolean).join(' ')
RECURSIVE JoinParts(_)
JoinParts(parts) ==
    IF parts = <<>> THEN <<>>
    ELSE IF Head(parts) = <<>> THEN JoinParts(Tail(parts))
    ELSE LET rest == JoinParts(Tail(parts))
         IN IF rest = <<>> THEN Head(parts) ELSE Head(parts) \o <<" ">> \o rest

\* A content handler that replaces the citations of the open turn.
handleContentReplacingCitations(ts, parts, groundingChunks) ==
    LET text == JoinParts(parts)
    IN IF text = <<>> /\ groundingChunks = <<>> THEN ts
       ELSE IF CanAppend(ts, "agent")
         THEN IF groundingChunks # <<>>
              THEN updateLastTurn(ts,
                     [text |-> ts[Len(ts)].text \o text,
                      groundingChunks |-> groundingChunks])
              ELSE updateLastTurn(ts, [text |-> ts[Len(ts)].text \o text])
       ELSE addTurn(ts, Turn("agent", text, FALSE, groundingChunks, <<>>))

handleContent(ts, parts, groundingChunks) ==
    LET text == JoinParts(parts)
    IN IF text = <<>> /\ groundingChunks = <<>> THEN ts
       ELSE IF CanAppend(ts, "agent")
         THEN IF groundingChunks # <<>>
              THEN updateLastTurn(ts,
                     [text |-> ts[Len(ts)].text \o text,
                      groundingChunks |-> ts[Len(ts)].groundingChunks \o groundingChunks])
              ELSE updateLastTurn(ts, [text |-> ts[Len(ts)].text \o text])
       ELSE addTurn(ts, Turn("agent", text, FALSE, groundingChunks, <<>>))

\* The first statements of handleTurnComplete.
FinalizeLast(ts) ==
    IF Len(ts) > 0 /\ ~ts[Len(ts)].isFinal
    THEN updateLastTurn(ts, [isFinal |-> TRUE])
    ELSE ts

\* History of the current run of deltas of one role with no other event in
\* between: the ledger before the run, the concatenation of the deltas, and
\* whether the last delta was final.
ExtendUtt(role, text, isFinal) ==
    IF utt.active /\ utt.role = role /\ ~utt.closed
    THEN [utt EXCEPT !.text = @ \o text, !.closed = isFinal]
    ELSE [active |-> TRUE, role |-> role, base |-> turns,
          text |-> text, closed |-> isFinal]

PendingCount ==
    pending.save["user"] + pending.save["agent"] + pending.save["system"]
    + pending.save["none"] + pending.analysis + pending.promo

InputTranscription ==
    \E text \in Deltas : \E isFinal \in BOOLEAN :
        /\ turns' = handleInputTranscription(turns, text, isFinal)
        /\ WithinBounds(turns')
        /\ promoTimer' = FALSE
        /\ utt' = ExtendUtt("user", text, isFinal)
        /\ UNCHANGED <<offstage, user, tools, batches, confirmation, tasks, jobs, sent, approved, pending>>

\* The deltas of one spoken "Hello world", as the speech recogniser cuts it.
HelloDeltas == {<<"H", "e", "l">>, <<"l", "o", " ">>, <<"w", "o", "r", "l", "d">>}

\* Characters held by the ledger.
RECURSIVE Chars(_)
Chars(ts) == IF ts = <<>> THEN 0 ELSE Len(Head(ts).text) + Chars(Tail(ts))

\* The input transcription event, fed with the deltas of "Hello world".
HelloTranscription ==
    \E text \in HelloDeltas : \E isFinal \in BOOLEAN :
        /\ turns' = handleInputTranscription(turns, text, isFinal)
        /\ Chars(turns') <= MaxChars
        /\ promoTimer' = FALSE
        /\ utt' = ExtendUtt("user", text, isFinal)
        /\ UNCHANGED <<offstage, user, tools, batches, confirmation, tasks, jobs, sent, approved, pending>>

OutputTranscription ==
    \E text \in Deltas : \E isFinal \in BOOLEAN :
        /\ turns' = handleOutputTranscription(turns, text, isFinal)
        /\ WithinBounds(turns')
        /\ utt' = ExtendUtt("agent", text, isFinal)
        /\ UNCHANGED <<offstage, user, tools, batches, confirmation, tasks, jobs, sent, approved,
                       promoTimer, pending>>

Content ==
    \E parts \in ContentParts : \E gc \in GroundingChunks :
        /\ turns' = handleContent(turns, parts, gc)
        /\ WithinBounds(turns')
        /\ utt' = NoUtt
        /\ UNCHANGED <<offstage, user, tools, batches, confirmation, tasks, jobs, sent, approved,
                       promoTimer, pending>>

\* handleTurnComplete up to its first await.  With a user the rest runs after
\* the upsert of the conversation; without one it runs at once.
TurnComplete ==
    /\ turns' = FinalizeLast(turns)
    /\ IF user # "none"
         THEN /\ PendingCount < MaxPending
              /\ pending' = [pending EXCEPT
                    !.save[IF Len(turns) > 0 THEN turns[Len(turns)].role ELSE "none"] = @ + 1]
              /\ promoTimer' = promoTimer
         ELSE /\ pending' = pending
              /\ promoTimer' = (promoTimer \/ (Len(turns) > 0 /\ turns[Len(turns)].role = "agent"))
    /\ utt' = NoUtt
    /\ UNCHANGED <<offstage, user, tools, batches, confirmation, tasks, jobs, sent, approved>>

\* The rest of handleTurnComplete, after the upsert returned or threw.
TurnCompleteSaved ==
    \E role \in SavedRoles :
        /\ pending.save[role] > 0
        /\ pending' = [pending EXCEPT
                         !.save[role] = @ - 1,
                         !.analysis = IF role = "user" /\ Len(turns) > 0
                                      THEN @ + 1 ELSE @]
        /\ promoTimer' = (promoTimer \/ role = "agent")
        /\ UNCHANGED <<offstage, user, tools, turns, batches, confirmation, tasks, jobs, sent,
                          approved, utt>>

\* runBackgroundAnalysis after the model answered: a memory update logs a
\* system turn; no update, or a failure, logs nothing.
AnalysisDone ==
    /\ pending.analysis > 0
    /\ pending' = [pending EXCEPT !.analysis = @ - 1]
    /\ \/ /\ turns' = addTurn(turns, Turn("system", <<"memory updated">>, TRUE, <<>>, <<>>))
          /\ WithinBounds(turns')
          /\ utt' = NoUtt
       \/ UNCHANGED <<turns, utt>>
    /\ UNCHANGED <<offstage, user, tools, batches, confirmation, tasks, jobs, sent, approved, promoTimer>>

\* turns.slice(-4).filter(t => t.role !== 'system')
RecentNonSystem(ts) ==
    LET from == IF Len(ts) > 4 THEN Len(ts) - 3 ELSE 1
    IN {k \in from..Len(ts) : ts[k].role # "system"}

\* The 15 s timeout fires: triggerPromotionalMessage up to its await.
PromoTimeout ==
    /\ promoTimer
    /\ promoTimer' = FALSE
    /\ IF Cardinality(RecentNonSystem(turns)) < 2
         THEN pending' = pending
         ELSE /\ PendingCount < MaxPending
              /\ pending' = [pending EXCEPT !.promo = @ + 1]
    /\ UNCHANGED <<offstage, user, tools, turns, batches, confirmation, tasks, jobs, sent, approved, utt>>

\* triggerPromotionalMessage after generateContent returned or threw.
PromoDone ==
    /\ pending.promo > 0
    /\ pending' = [pending EXCEPT !.promo = @ - 1]
    /\ \/ /\ turns' = addTurn(turns, Turn("system", <<"promo">>, TRUE, <<>>, <<>>))
          /\ WithinBounds(turns')
          /\ utt' = NoUtt
       \/ UNCHANGED <<turns, utt>>
    /\ UNCHANGED <<offstage, user, tools, batches, confirmation, tasks, jobs, sent, approved, promoTimer>>

\* handleSendMessage with a non-empty trimmed message, while connected.
TypedMessage ==
    \E text \in Deltas :
        /\ turns' = addTurn(turns, Turn("user", text, TRUE, <<>>, <<>>))
        /\ WithinBounds(turns')
        /\ utt' = NoUtt
        /\ UNCHANGED <<offstage, user, tools, batches, confirmation, tasks, jobs, sent, approved,
                       promoTimer, pending>>

(***************************************************************************)
(* The detached coroutines of executeVideoGenerationTool and               *)
(* executePresentationGenerationTool                                       *)
(***************************************************************************)
\* What the coroutines neither read nor write.
jobRest == <<user, tools, turns, batches, confirmation, sent, approved,
             promoTimer, pending, utt, sessionVars, poller, audio, moreVars>>

\* A poll step that lowers the progress.
VideoPollProgressDown(p) == IF p - 15 < 90 THEN p - 15 ELSE 90

\* progress = Math.min(progress + 15, 90)
VideoPollProgress(p) == IF p + 15 < 90 THEN p + 15 ELSE 90

\* 10 + (currentAssetStep / totalAssetSteps) * 80
AssetProgress(step, total) == [num |-> 10 * total + step * 80, den |-> total]

\* The coroutine gives its task a progress value.
SetProgress(tk, js, id, p) ==
    [tasks |-> updateTask(tk, id, [progress |-> p]),
     jobs |-> [js EXCEPT ![id].seen = Append(@, p)]]

\* A completion that records no result.
VideoFinishWithoutResult(tk, js, id, link) ==
    [tasks |-> updateTask(tk, id, [status |-> "completed", progress |-> Pct(100)]),
     jobs |-> [js EXCEPT ![id].seen = Append(@, Pct(100)), ![id].pc = "done"]]

\* The operation is done: the task completes with its download link, or the
\* coroutine throws for want of one and its catch marks the task failed.
VideoFinish(tk, js, id, link) ==
    IF link
      THEN [tasks |-> updateTask(tk, id, [status |-> "completed", progress |-> Pct(100),
                                          result |-> "download"]),
            jobs |-> [js EXCEPT ![id].seen = Append(@, Pct(100)), ![id].pc = "done"]]
      ELSE [tasks |-> updateTask(tk, id, [status |-> "failed"]),
            jobs |-> [js EXCEPT ![id].pc = "done"]]

\* ai.models.generateVideos returns the operation.
VideoOperationStarts ==
    \E id \in DOMAIN jobs : \E done \in BOOLEAN : \E link \in BOOLEAN :
        /\ jobs[id].kind = "video"
        /\ jobs[id].pc = "start"
        /\ LET js == [jobs EXCEPT ![id].progress = 10, ![id].pc = "polling"]
               r == IF done THEN VideoFinish(tasks, js, id, link)
                    ELSE [tasks |-> tasks, jobs |-> js]
           IN tasks' = r.tasks /\ jobs' = r.jobs
        /\ UNCHANGED <<tokens, jobRest>>

\* One iteration of `while (!operation.done)`: the wait and the poll return.
\* The operation is done at the latest at poll MaxPolls.
VideoPoll ==
    \E id \in DOMAIN jobs : \E done \in BOOLEAN : \E link \in BOOLEAN :
        /\ jobs[id].kind = "video"
        /\ jobs[id].pc = "polling"
        /\ jobs[id].polls < MaxPolls
        /\ done \/ jobs[id].polls + 1 < MaxPolls
        /\ LET p == VideoPollProgress(jobs[id].progress)
               js == [jobs EXCEPT ![id].progress = p, ![id].polls = @ + 1]
               r1 == SetProgress(tasks, js, id, Pct(p))
               r == IF done THEN VideoFinish(r1.tasks, r1.jobs, id, link) ELSE r1
           IN tasks' = r.tasks /\ jobs' = r.jobs
        /\ UNCHANGED <<tokens, jobRest>>

\* An awaited call of the video coroutine rejects: its catch block.
VideoFails ==
    \E id \in DOMAIN jobs :
        /\ jobs[id].kind = "video"
        /\ jobs[id].pc \in {"start", "polling"}
        /\ tasks' = updateTask(tasks, id, [status |-> "failed"])
        /\ jobs' = [jobs EXCEPT ![id].pc = "done"]
        /\ UNCHANGED <<tokens, jobRest>>

\* The outline returns with m slides.
PresentationOutline ==
    \E id \in DOMAIN jobs : \E m \in 0..MaxSlides :
        /\ jobs[id].kind = "presentation"
        /\ jobs[id].pc = "start"
        /\ LET js == [jobs EXCEPT ![id].total = 2 * m, ![id].pc = "assets"]
               r == SetProgress(tasks, js, id, Pct(10))
           IN tasks' = r.tasks /\ jobs' = r.jobs
        /\ UNCHANGED <<tokens, jobRest>>

\* The next await of the asset phase returns: the audio context of an
\* outline without slides, or the image or the narration of a slide.  After
\* the last one the loop ends and the task is set to 95 before the video of
\* the presentation is awaited.
PresentationAsset ==
    \E id \in DOMAIN jobs :
        /\ jobs[id].kind = "presentation"
        /\ jobs[id].pc = "assets"
        /\ LET j == jobs[id]
               step == j.step + 1
               r1 == IF j.total = 0 THEN [tasks |-> tasks, jobs |-> jobs]
                     ELSE SetProgress(tasks, [jobs EXCEPT ![id].step = step], id,
                                      AssetProgress(step, j.total))
               r == IF j.total = 0 \/ step = j.total
                      THEN SetProgress(r1.tasks, [r1.jobs EXCEPT ![id].pc = "assemble"],
                                       id, Pct(95))
                    ELSE r1
           IN tasks' = r.tasks /\ jobs' = r.jobs
        /\ UNCHANGED <<tokens, jobRest>>

\* The settings of the user are loaded: setTokens(settingsData.tokens || 0),
\* with a balance that pays for two presentations.
SetTokens ==
    /\ tokens' = 2 * PRESENTATION_TOOL_COST
    /\ tokens' # tokens
    /\ UNCHANGED <<tasks, jobs, jobRest>>

\* A deduction that is not held at zero.
decrementTokensUnclamped(t, amount) == t - amount

\* decrementTokens
decrementTokens(t, amount) == IF t - amount > 0 THEN t - amount ELSE 0

\* createPresentationVideo returns: the task completes and the tokens are
\* deducted; with a user, the new balance is then written to the database.
PresentationAssembled ==
    \E id \in DOMAIN jobs :
        /\ jobs[id].kind = "presentation"
        /\ jobs[id].pc = "assemble"
        /\ tasks' = updateTask(tasks, id, [status |-> "completed", progress |-> Pct(100),
                                           result |-> "view"])
        /\ tokens' = decrementTokens(tokens, PRESENTATION_TOOL_COST)
        /\ jobs' = [jobs EXCEPT ![id].seen = Append(@, Pct(100)),
                                ![id].pc = IF user = "none" THEN "done" ELSE "saving"]
        /\ UNCHANGED jobRest

\* The write of the balance returns.
PresentationSaved ==
    \E id \in DOMAIN jobs :
        /\ jobs[id].kind = "presentation"
        /\ jobs[id].pc = "saving"
        /\ jobs' = [jobs EXCEPT ![id].pc = "done"]
        /\ UNCHANGED <<tasks, tokens, jobRest>>

\* An awaited call of the presentation coroutine rejects: its catch block.
\* The write of the balance is inside the same try block.
PresentationFails ==
    \E id \in DOMAIN jobs :
        /\ jobs[id].kind = "presentation"
        /\ jobs[id].pc \in {"start", "assets", "assemble", "saving"}
        /\ tasks' = updateTask(tasks, id, [status |-> "failed"])
        /\ jobs' = [jobs EXCEPT ![id].pc = "done"]
        /\ UNCHANGED <<tokens, jobRest>>

\* The Dismiss button of BackgroundTaskManager.
RemoveTask ==
    \E k \in 1..Len(tasks) :
        /\ tasks' = removeTask(tasks, tasks[k].id)
        /\ UNCHANGED <<tokens, jobs, jobRest>>

\* clearCompletedTasks, for a list it changes.
ClearCompletedTasks ==
    /\ tasks' = clearCompletedTasks(tasks)
    /\ tasks' # tasks
    /\ UNCHANGED <<tokens, jobs, jobRest>>

(***************************************************************************)
(* The session: GenAILiveClient, connect / disconnect and the open and     *)
(* close handlers of useLiveApi                                            *)
(***************************************************************************)
\* What the session handlers neither read nor write.
sessionRest == <<user, tools, turns, batches, confirmation, tasks, sent, approved,
                 promoTimer, pending, utt, tokens, jobs, driver, poller, audio, moreVars>>

NoClient == [status |-> "disconnected", session |-> 0]

NoLog ==
    [connectCalls |-> 0, disconnectCalls |-> 0, opens |-> 0, overlapped |-> FALSE,
     connectChimes |-> 0, disconnectChimes |-> 0]

\* The session state the handlers work on.
SessionState ==
    [client |-> client, transport |-> transport, connected |-> connected,
     log |-> sessionLog]

CommitSession(ss) ==
    /\ client' = ss.client
    /\ transport' = ss.transport
    /\ connected' = ss.connected
    /\ sessionLog' = ss.log

\* client.connect(config): opens a transport session and waits for its open
\* event.
clientConnect(ss) ==
    LET id == ss.log.opens + 1
    IN [ss EXCEPT !.transport = @ \cup {id},
                  !.client = [status |-> "connecting", session |-> id],
                  !.log.opens = id]

\* onOpen: setConnected(true); playConnectChime()
onOpen(ss) ==
    [ss EXCEPT !.connected = TRUE, !.log.connectChimes = @ + 1]

\* The transport session the client waits for is open: the client is
\* connected and emits its open event.
clientOpened(ss) ==
    onOpen([ss EXCEPT !.client.status = "connected"])

\* A close handler that opens a new transport session by itself.
onCloseReconnecting(ss) ==
    clientConnect([ss EXCEPT !.connected = FALSE, !.log.disconnectChimes = @ + 1])

\* onClose: setConnected(false); playDisconnectChime()
onClose(ss) ==
    [ss EXCEPT !.connected = FALSE, !.log.disconnectChimes = @ + 1]

\* The transport session of the client is gone: the client is idle again
\* and emits its close event.
clientClosed(ss) ==
    onClose([ss EXCEPT !.transport = @ \ {ss.client.session},
                       !.client = NoClient])

\* client.disconnect(): tears the transport session down at once; without
\* a session it does nothing.
clientDisconnect(ss) ==
    IF ss.client.session = 0 THEN ss ELSE clientClosed(ss)

\* A connect that does not close the previous session first.
connectWithoutClose(ss) == clientConnect(ss)

\* connect: client.disconnect(); await client.connect(config)
connect(ss) == clientConnect(clientDisconnect(ss))

\* A disconnect that plays the chime itself.
disconnectChiming(ss) ==
    [clientDisconnect(ss) EXCEPT !.connected = FALSE, !.log.disconnectChimes = @ + 1]

\* disconnect: client.disconnect(); setConnected(false)
disconnect(ss) ==
    [clientDisconnect(ss) EXCEPT !.connected = FALSE]

\* The caller invokes connect().
Connect ==
    /\ sessionLog.connectCalls < MaxConnects
    /\ CommitSession(connect([SessionState EXCEPT
            !.log.connectCalls = @ + 1,
            !.log.overlapped = @ \/ client.status = "connecting"]))
    /\ UNCHANGED sessionRest

\* A disconnect() that also abandons the detached coroutines.
DisconnectCancelling ==
    /\ sessionLog.disconnectCalls < MaxDisconnects
    /\ CommitSession(disconnect([SessionState EXCEPT !.log.disconnectCalls = @ + 1]))
    /\ jobs' = [id \in DOMAIN jobs |-> [jobs[id] EXCEPT !.pc = "done"]]
    /\ UNCHANGED <<user, tools, turns, batches, confirmation, tasks, sent, approved,
                   promoTimer, pending, utt, tokens, driver, poller, audio, moreVars>>

\* The caller invokes disconnect().
Disconnect ==
    /\ sessionLog.disconnectCalls < MaxDisconnects
    /\ CommitSession(disconnect([SessionState EXCEPT !.log.disconnectCalls = @ + 1]))
    /\ UNCHANGED sessionRest

\* The transport session the client waits for opens.
TransportOpens ==
    /\ client.status = "connecting"
    /\ CommitSession(clientOpened(SessionState))
    /\ UNCHANGED sessionRest

\* The backend closes the transport session, or the session fails.
TransportCloses ==
    /\ client.session # 0
    /\ CommitSession(clientClosed(SessionState))
    /\ UNCHANGED sessionRest

(***************************************************************************)
(* The keep-alive driver: the effect of useLiveApi on [connected, client]  *)
(***************************************************************************)
driverRest == <<user, tools, turns, batches, confirmation, tasks, sent, approved,
                promoTimer, pending, utt, tokens, jobs, client, transport,
                connected, sessionLog, poller, audio, moreVars>>

\* effect: the value of `connected` the effect last ran with.  For each of
\* the three activities, whether its ref is set and how many instances of
\* it run; promises: the audioContext promises of startBackgroundTasks that
\* have not resolved yet.
NoDriver ==
    [effect |-> FALSE,
     keepAliveRef |-> FALSE, keepAlives |-> 0,
     loopRef |-> FALSE, loops |-> 0,
     faviconRef |-> FALSE, favicons |-> 0,
     promises |-> 0]

stopBackgroundTasks(d) ==
    [d EXCEPT !.keepAlives = IF d.keepAliveRef THEN @ - 1 ELSE @,
              !.keepAliveRef = FALSE,
              !.loops = IF d.loopRef THEN @ - 1 ELSE @,
              !.loopRef = FALSE,
              !.favicons = IF d.faviconRef THEN @ - 1 ELSE @,
              !.faviconRef = FALSE]

\* The favicon interval is set without clearing the one of the ref.
startBackgroundTasks(d) ==
    [d EXCEPT !.keepAlives = IF d.keepAliveRef THEN @ ELSE @ + 1,
              !.keepAliveRef = TRUE,
              !.promises = @ + 1,
              !.favicons = @ + 1,
              !.faviconRef = TRUE]

\* The effect runs for a new value of `connected`: the cleanup of the
\* previous run, then the body.
KeepAliveEffect ==
    /\ driver.effect # connected
    /\ LET d == stopBackgroundTasks(driver)
       IN driver' = [(IF connected THEN startBackgroundTasks(d)
                      ELSE stopBackgroundTasks(d))
                       EXCEPT !.effect = connected]
    /\ UNCHANGED driverRest

\* The callback of audioContext(...).then: stops the loop of the ref, starts
\* a new one and stores it.
AudioContextResolves ==
    /\ driver.promises > 0
    /\ driver' = [driver EXCEPT !.promises = @ - 1,
                                !.loops = IF driver.loopRef THEN @ ELSE @ + 1,
                                !.loopRef = TRUE]
    /\ UNCHANGED driverRest

(***************************************************************************)
(* pollForResult                                                           *)
(***************************************************************************)
pollerRest == <<user, tools, turns, batches, confirmation, tasks, sent, approved,
                promoTimer, pending, utt, tokens, jobs, sessionVars, audio, moreVars>>

maxAttempts == 15

\* timer: the interval is armed; attempts: the variable of the closure;
\* inflight: callbacks of the interval waiting for their fetch; requests is
\* history: the status requests issued; notices: the messages handed to
\* client.send, in order.
NoPoller ==
    [started |-> FALSE, timer |-> FALSE, attempts |-> 0, inflight |-> 0,
     requests |-> 0, notices |-> <<>>]

\* executeWebhookTool calls pollForResult for a tool with a status URL.
PollForResult ==
    /\ ~poller.started
    /\ poller' = [poller EXCEPT !.started = TRUE, !.timer = TRUE]
    /\ UNCHANGED pollerRest

\* A tick that gives up without telling anybody.
PollTickSilent ==
    /\ poller.timer
    /\ IF poller.attempts >= maxAttempts
         THEN poller' = [poller EXCEPT !.timer = FALSE]
       ELSE /\ poller.inflight < MaxInflight
            /\ poller' = [poller EXCEPT !.inflight = @ + 1, !.requests = @ + 1]
    /\ UNCHANGED pollerRest

\* The interval fires: the callback runs up to its fetch.
PollTick ==
    /\ poller.timer
    /\ IF poller.attempts >= maxAttempts
         THEN poller' = [poller EXCEPT !.timer = FALSE,
                                       !.notices = Append(@, "timeout")]
       ELSE /\ poller.inflight < MaxInflight
            /\ poller' = [poller EXCEPT !.inflight = @ + 1, !.requests = @ + 1]
    /\ UNCHANGED pollerRest

\* The fetch of one callback settles: a terminal status, a pending status,
\* or a response that is not ok or a network error.
PollResponse ==
    \E outcome \in {"terminal", "pending", "failed"} :
        /\ poller.inflight > 0
        /\ poller' = [poller EXCEPT
                        !.inflight = @ - 1,
                        !.attempts = @ + 1,
                        !.timer = IF outcome = "terminal" THEN FALSE ELSE @,
                        !.notices = IF outcome = "terminal"
                                    THEN Append(@, "completed") ELSE @]
        /\ UNCHANGED pollerRest

(***************************************************************************)
(* Audio: the AudioStreamer that plays what the backend sends and the      *)
(* AudioRecorder of ControlTray that captures the microphone               *)
(***************************************************************************)
audioRest == <<user, tools, turns, batches, confirmation, tasks, sent, approved,
               promoTimer, pending, utt, tokens, jobs, sessionVars, poller, moreVars>>

\* streamer: audioStreamerRef.current is set; playing: the streamer holds
\* inbound audio it has not played to the end; recording: the recorder is
\* started; effect: the value of `connected` the recorder effect last ran
\* with.
NoAudio == [streamer |-> FALSE, playing |-> FALSE, recording |-> FALSE,
            effect |-> FALSE]

\* stopAudioStreamer: audioStreamerRef.current.stop(), if the ref is set
stopAudioStreamer(a) ==
    IF a.streamer THEN [a EXCEPT !.playing = FALSE] ELSE a

\* onAudio: audioStreamerRef.current.addPCM16(data), if the ref is set
onAudio(a) ==
    IF a.streamer THEN [a EXCEPT !.playing = TRUE] ELSE a

\* audioContext({id: 'audio-out'}) resolves and the streamer is created.
AudioOutResolves ==
    /\ ~audio.streamer
    /\ audio' = [audio EXCEPT !.streamer = TRUE]
    /\ UNCHANGED audioRest

\* The client emits 'audio' with a chunk of the agent's speech.
OnAudio ==
    /\ client.status = "connected"
    /\ audio' = onAudio(audio)
    /\ UNCHANGED audioRest

\* The client emits 'interrupted'.
Interrupted ==
    /\ client.status = "connected"
    /\ audio' = stopAudioStreamer(audio)
    /\ UNCHANGED audioRest

\* The streamer has played everything it was given.
PlaybackEnds ==
    /\ audio.playing
    /\ audio' = [audio EXCEPT !.playing = FALSE]
    /\ UNCHANGED audioRest

\* The recorder effect of ControlTray, run for a new value of `connected`:
\* start the recorder when connected, stop it otherwise.
RecorderEffect ==
    /\ audio.effect # connected
    /\ audio' = [audio EXCEPT !.effect = connected, !.recording = connected]
    /\ UNCHANGED audioRest

(***************************************************************************)
(* The keep-alive interval and the other traffic on the transport          *)
(***************************************************************************)
wireRest == <<user, tools, turns, batches, confirmation, tasks, sent, approved,
              promoTimer, pending, utt, tokens, jobs, sessionVars, poller, audio,
              sink, listeners, paid, toolStore>>

\* ticks: callbacks of the keep-alive interval run so far; silent: silent
\* frames it sent; other: a frame of the recorder was sent since the
\* previous tick.
NoWire == [ticks |-> 0, silent |-> 0, other |-> FALSE]

\* A tick that sends its frame without looking at the client.
KeepAliveTickUnchecked ==
    /\ driver.keepAlives > 0
    /\ wire.ticks < MaxTicks
    /\ wire' = [wire EXCEPT !.ticks = @ + 1, !.silent = @ + 1, !.other = FALSE]
    /\ UNCHANGED wireRest

\* The callback of the keep-alive interval: if the client is connected, send
\* 320 zero bytes as realtime audio input.
KeepAliveTick ==
    /\ driver.keepAlives > 0
    /\ wire.ticks < MaxTicks
    /\ wire' = [wire EXCEPT !.ticks = @ + 1,
                            !.silent = IF client.status = "connected" THEN @ + 1 ELSE @,
                            !.other = FALSE]
    /\ UNCHANGED wireRest

\* onData of ControlTray: the started recorder emits a chunk and it is sent
\* as realtime input.
RecorderData ==
    /\ audio.recording
    /\ client.status = "connected"
    /\ ~wire.other
    /\ wire' = [wire EXCEPT !.other = TRUE]
    /\ UNCHANGED wireRest

(***************************************************************************)
(* The queue of the playback sink                                          *)
(***************************************************************************)
sinkRest == <<user, tools, turns, batches, confirmation, tasks, sent, approved,
              promoTimer, pending, utt, tokens, jobs, sessionVars, poller, wire,
              listeners, paid, toolStore>>

\* queue: the chunks given to the streamer and not played yet, each with its
\* arrival number and the number of interrupted events before it; played:
\* history of the chunks played; arrivals, interrupts: the events so far.
NoSink == [queue |-> <<>>, played |-> <<>>, arrivals |-> 0, interrupts |-> 0]

\* AudioStreamer.addPCM16: the chunk goes to the end of the queue.
addPCM16(s, chunk) == [s EXCEPT !.queue = Append(@, chunk)]

\* AudioStreamer.stop: the queue is discarded at once.
streamerStop(s) == [s EXCEPT !.queue = <<>>]

\* An interrupted event that no handler is bound to.
InterruptedUnbound ==
    /\ client.status = "connected"
    /\ sink.interrupts < MaxInterrupts
    /\ sink' = [sink EXCEPT !.interrupts = @ + 1]
    /\ UNCHANGED <<audio, sinkRest>>

\* The client emits 'interrupted': stopAudioStreamer.
InterruptedEvent ==
    /\ client.status = "connected"
    /\ sink.interrupts < MaxInterrupts
    /\ audio' = stopAudioStreamer(audio)
    /\ sink' = [(IF audio.streamer THEN streamerStop(sink) ELSE sink)
                   EXCEPT !.interrupts = @ + 1]
    /\ UNCHANGED sinkRest

\* The client emits 'audio': onAudio.
AudioEvent ==
    /\ client.status = "connected"
    /\ sink.arrivals < MaxChunks
    /\ audio' = onAudio(audio)
    /\ LET chunk == [n |-> sink.arrivals + 1, after |-> sink.interrupts]
       IN sink' = [(IF audio.streamer THEN addPCM16(sink, chunk) ELSE sink)
                      EXCEPT !.arrivals = @ + 1]
    /\ UNCHANGED sinkRest

\* The streamer plays the chunk at the head of its queue.
ChunkPlayed ==
    /\ sink.queue # <<>>
    /\ sink' = [sink EXCEPT !.queue = Tail(@), !.played = Append(@, Head(sink.queue))]
    /\ audio' = [audio EXCEPT !.playing = Tail(sink.queue) # <<>>]
    /\ UNCHANGED sinkRest

(***************************************************************************)
(* The effect that binds the handlers to the client                        *)
(***************************************************************************)
listenersRest == <<user, tools, turns, batches, confirmation, tasks, sent, approved,
                   promoTimer, pending, utt, tokens, jobs, sessionVars, poller,
                   audio, wire, sink, paid, toolStore>>

TransportEvents ==
    {"open", "close", "interrupted", "audio", "inputTranscription",
     "outputTranscription", "content", "turncomplete", "toolcall"}

\* The client objects useMemo may hand to the hook, one per (apiKey, model).
ClientObjects == {1, 2}

\* mounted: the effect has run and was not cleaned up for good; run: the
\* number of its current run, which stands for the handler closures of that
\* run; of: the client object of that run; reg: for each client object and
\* event, the handlers registered, in order.
NoListeners ==
    [mounted |-> FALSE, run |-> 0, of |-> 1,
     reg |-> [c \in ClientObjects |-> [e \in TransportEvents |-> <<>>]]]

\* client.on(event, handler) for each of the nine events.
bindAll(reg, c, h) ==
    [reg EXCEPT ![c] = [e \in TransportEvents |-> Append(reg[c][e], h)]]

\* client.off(event, handler) for each of the nine events.
unbindAll(reg, c, h) ==
    [reg EXCEPT ![c] = [e \in TransportEvents |->
                           SelectSeq(reg[c][e], LAMBDA x : x # h)]]

\* The component mounts: the effect runs for the first time.
EffectMounts ==
    /\ ~listeners.mounted
    /\ listeners.run < MaxRuns
    /\ \E c \in ClientObjects :
         listeners' = [mounted |-> TRUE, run |-> listeners.run + 1, of |-> c,
                       reg |-> bindAll(listeners.reg, c, listeners.run + 1)]
    /\ UNCHANGED listenersRest

\* A rerun whose cleanup unbinds from the client of the new render.
EffectRerunsUnbindingNewClient ==
    /\ listeners.mounted
    /\ listeners.run < MaxRuns
    /\ \E c \in ClientObjects :
         listeners' = [listeners EXCEPT
             !.run = @ + 1, !.of = c,
             !.reg = bindAll(unbindAll(listeners.reg, c, listeners.run),
                             c, listeners.run + 1)]
    /\ UNCHANGED listenersRest

\* A dependency of the effect changed (client, ai, apiKey, user or a chime
\* callback): the cleanup of the previous run, then the body.
EffectReruns ==
    /\ listeners.mounted
    /\ listeners.run < MaxRuns
    /\ \E c \in ClientObjects :
         listeners' = [listeners EXCEPT
             !.run = @ + 1, !.of = c,
             !.reg = bindAll(unbindAll(listeners.reg, listeners.of, listeners.run),
                             c, listeners.run + 1)]
    /\ UNCHANGED listenersRest

\* The component unmounts: the cleanup of the last run.
EffectUnmounts ==
    /\ listeners.mounted
    /\ listeners' = [listeners EXCEPT
            !.mounted = FALSE,
            !.reg = unbindAll(listeners.reg, listeners.of, listeners.run)]
    /\ UNCHANGED listenersRest

(***************************************************************************)
(* The tool store of the settings page                                     *)
(***************************************************************************)
toolStoreRest == <<user, tools, turns, batches, confirmation, tasks, sent, approved,
                   promoTimer, pending, utt, tokens, jobs, sessionVars, poller,
                   audio, wire, sink, listeners, paid>>

\* A FunctionCall of the store, reduced to its name and its isEnabled flag.
Tool(name, isEnabled) == [name |-> name, isEnabled |-> isEnabled]

\* The default tool set: three of its twenty-eight tools, in their order,
\* each enabled as the source enables every one of them.
businessAssistantTools ==
    << Tool("place_call", TRUE), Tool("search_web", TRUE), Tool("set_reminder", TRUE) >>

NoToolStore == [tools |-> businessAssistantTools, op |-> <<"none">>]

ToolNamesOf(ts) == {ts[i].name : i \in 1..Len(ts)}

\* tools.find(t => t.name === toolName)?.isEnabled || false
IsEnabledIn(ts, toolName) ==
    \E i \in 1..Len(ts) : ts[i].name = toolName /\ ts[i].isEnabled

toggleTool(ts, toolName) ==
    LET isSearchEnabled == IsEnabledIn(ts, "search_web")
        isEnablingNewTool == ~IsEnabledIn(ts, toolName)
    IN  IF isSearchEnabled /\ toolName # "search_web" /\ isEnablingNewTool
        THEN ts
        ELSE IF toolName = "search_web" /\ ~isSearchEnabled
        THEN [i \in 1..Len(ts) |-> Tool(ts[i].name, ts[i].name = "search_web")]
        ELSE [i \in 1..Len(ts) |->
                 IF ts[i].name = toolName
                 THEN Tool(ts[i].name, ~ts[i].isEnabled)
                 ELSE ts[i]]

\* The while loop of addTool, from the candidate it holds and its counter.
RECURSIVE newToolNameFrom(_, _, _)
newToolNameFrom(ts, newToolName, counter) ==
    IF newToolName \in ToolNamesOf(ts)
    THEN newToolNameFrom(ts, "new_function_" \o ToString(counter), counter + 1)
    ELSE newToolName

addTool(ts) == Append(ts, Tool(newToolNameFrom(ts, "new_function", 1), TRUE))

removeTool(ts, toolName) == SelectSeq(ts, LAMBDA t : t.name # toolName)

updateToolUnchecked(ts, oldName, updatedTool) ==
    [i \in 1..Len(ts) |-> IF ts[i].name = oldName THEN updatedTool ELSE ts[i]]

updateTool(ts, oldName, updatedTool) ==
    IF oldName # updatedTool.name /\ updatedTool.name \in ToolNamesOf(ts)
    THEN ts
    ELSE [i \in 1..Len(ts) |-> IF ts[i].name = oldName THEN updatedTool ELSE ts[i]]

\* The names the tool editor is given for a tool: those in the store and
\* the name addTool tries first.
EditorNames == ToolNamesOf(toolStore.tools) \cup {"new_function"}

\* The checkbox of a tool in the list.
ToggleTool ==
    /\ \E i \in 1..Len(toolStore.tools) :
          LET toolName == toolStore.tools[i].name
          IN  toolStore' = [tools |-> toggleTool(toolStore.tools, toolName),
                            op |-> <<"toggleTool", toolName>>]
    /\ UNCHANGED toolStoreRest

\* The "Add New Tool" button.
AddTool ==
    /\ Len(toolStore.tools) < MaxTools
    /\ toolStore' = [tools |-> addTool(toolStore.tools), op |-> <<"addTool">>]
    /\ UNCHANGED toolStoreRest

\* handleDeleteTool, confirmed.
RemoveTool ==
    /\ \E i \in 1..Len(toolStore.tools) :
          LET toolName == toolStore.tools[i].name
          IN  toolStore' = [tools |-> removeTool(toolStore.tools, toolName),
                            op |-> <<"removeTool", toolName>>]
    /\ UNCHANGED toolStoreRest

\* handleSaveTool: the editor saves the tool it was opened on under the name typed.
UpdateTool ==
    /\ \E i \in 1..Len(toolStore.tools) : \E name \in EditorNames :
          LET editingTool == toolStore.tools[i]
              updatedTool == Tool(name, editingTool.isEnabled)
          IN  toolStore' = [tools |-> updateTool(toolStore.tools, editingTool.name, updatedTool),
                            op |-> <<"updateTool", editingTool.name, name>>]
    /\ UNCHANGED toolStoreRest

(***************************************************************************)
(* The paid executors that executeTool awaits: image and document          *)
(***************************************************************************)
paidRest == <<user, tools, confirmation, tasks, jobs, approved, promoTimer, pending,
              utt, sessionVars, poller, audio, wire, sink, listeners, toolStore>>

NoPaid == [start |-> 0]

\* The balances the settings of a user may hold.
TokenBalances == {30, 60}

PaidTools == {"generate_image", "create_document", "create_business_presentation"}

CostOf(name) ==
    IF name = "generate_image" THEN IMAGE_TOOL_COST
    ELSE IF name = "create_document" THEN DOCUMENT_TOOL_COST
    ELSE PRESENTATION_TOOL_COST

\* The agent turn that shows the generated image or document.
ResultTurn(name) == Turn("agent", <<"Here is the", name>>, TRUE, <<>>, <<>>)

\* The settings of the user are loaded, before any tool is called:
\* setTokens(settingsData.tokens || 0).
LoadTokens ==
    /\ batches = <<>>
    /\ paid.start = 0
    /\ \E balance \in TokenBalances :
         /\ tokens' = balance
         /\ paid' = [start |-> balance]
    /\ UNCHANGED <<turns, batches, sent, paidRest>>

\* A toolcall event with one call of a paid tool.
ToolCallPaid ==
    \E name \in PaidTools : OnToolCallWith(<<name>>)

\* The generation of an image or of a document succeeded: the result turn is
\* added and the tokens are deducted; with a user, the new balance is then
\* written to the database, without one the executor returns.
PaidGenerated ==
    \E b \in 1..Len(batches) : \E i \in 1..Len(batches[b].calls) :
        /\ batches[b].status[i] = "generating"
        /\ tokens' = decrementTokens(tokens, CostOf(batches[b].calls[i].name))
        /\ LET st0 == [DispatchState(b) EXCEPT
                         !.turns = addTurn(turns, ResultTurn(batches[b].calls[i].name))]
               st == IF user = "none"
                     THEN [PushAndMaybeSend(st0, b, Len(batches[b].calls),
                                            Response(batches[b].calls[i], OkMsg))
                             EXCEPT !.status[i] = "done"]
                     ELSE [st0 EXCEPT !.status[i] = "saving"]
           IN Commit(st, b, batches)
        /\ UNCHANGED <<user, tools, approved, promoTimer, pending, utt, sessionVars,
                       poller, audio, moreVars>>

\* The write of the balance settles: the executor returns its OK response,
\* or the write rejected and the catch block returns an error response.
PaidSaved ==
    \E b \in 1..Len(batches) : \E i \in 1..Len(batches[b].calls) :
    \E result \in {OkMsg, ErrorMsg} :
        /\ batches[b].status[i] = "saving"
        /\ LET st == PushAndMaybeSend(DispatchState(b), b, Len(batches[b].calls),
                                      Response(batches[b].calls[i], result))
           IN Commit([st EXCEPT !.status[i] = "done"], b, batches)
        /\ UNCHANGED <<offstage, user, tools, approved, promoTimer, pending, utt>>

\* The generation rejects or yields nothing: the catch block returns an
\* error response.
PaidFails ==
    \E b \in 1..Len(batches) : \E i \in 1..Len(batches[b].calls) :
        /\ batches[b].status[i] = "generating"
        /\ LET st == PushAndMaybeSend(DispatchState(b), b, Len(batches[b].calls),
                                      Response(batches[b].calls[i], ErrorMsg))
           IN Commit([st EXCEPT !.status[i] = "done"], b, batches)
        /\ UNCHANGED <<offstage, user, tools, approved, promoTimer, pending, utt>>

(***************************************************************************)
(* Specification of the dispatcher                                         *)
(***************************************************************************)
Init ==
    /\ user \in Users
    /\ tools \in SUBSET {"search_web"}
    /\ turns = <<>>
    /\ batches = <<>>
    /\ confirmation = NoConfirmation
    /\ tasks = <<>>
    /\ sent = <<>>
    /\ approved = {}
    /\ promoTimer = FALSE
    /\ pending = NoPending
    /\ utt = NoUtt
    /\ tokens = 0
    /\ jobs = <<>>
    /\ client = NoClient
    /\ transport = {}
    /\ connected = FALSE
    /\ driver = NoDriver
    /\ sessionLog = NoLog
    /\ poller = NoPoller
    /\ audio = NoAudio
    /\ wire = NoWire
    /\ sink = NoSink
    /\ listeners = NoListeners
    /\ paid = NoPaid
    /\ toolStore = NoToolStore

Next ==
    \/ OnToolCall
    \/ ExecutorReturns
    \/ HandleDeleteTool
    \/ HandleConfirm
    \/ HandleCancel

Spec == Init /\ [][Next]_vars

(***************************************************************************)
(* Specification of the turn ledger: the transport events that write to    *)
(* useLogStore.  Its toolcall events carry one call of a native tool, which *)
(* is logged and answered within the handler.                              *)
(***************************************************************************)
OnToolCallLogged == OnToolCallWith(<<"summarize_text">>)

InitLedger ==
    /\ Init
    /\ user \in {"other", "none"}
    /\ tools = {"search_web"}

NextLedger ==
    \/ InputTranscription
    \/ OutputTranscription
    \/ Content
    \/ TurnComplete
    \/ TurnCompleteSaved
    \/ AnalysisDone
    \/ PromoTimeout
    \/ PromoDone
    \/ TypedMessage
    \/ OnToolCallLogged

SpecLedger == InitLedger /\ [][NextLedger]_vars

(***************************************************************************)
(* Specification of the background task tracker: the administrator's       *)
(* session, one generation of each kind, the task panel.                   *)
(***************************************************************************)
KindOf(name) == IF name = "generate_video" THEN "video" ELSE "presentation"

HasJob(kind) == \E id \in DOMAIN jobs : jobs[id].kind = kind

\* A toolcall event of the live session with one call of a background tool.
ToolCallBackground ==
    \E name \in BackgroundTools :
        /\ client.status = "connected"
        /\ ~HasJob(KindOf(name))
        /\ OnToolCallWith(<<name>>)

\* The tracker is followed over one session: one connect(), ended by one
\* disconnect() or by the transport.
ConnectOnce == sessionLog.connectCalls = 0 /\ Connect

DisconnectOnce == sessionLog.disconnectCalls = 0 /\ Disconnect

InitTasks ==
    /\ Init
    /\ user = "admin"
    /\ tools = {"search_web"}

NextTasks ==
    \/ SetTokens
    \/ ConnectOnce
    \/ TransportOpens
    \/ TransportCloses
    \/ DisconnectOnce
    \/ ToolCallBackground
    \/ VideoOperationStarts
    \/ VideoPoll
    \/ VideoFails
    \/ PresentationOutline
    \/ PresentationAsset
    \/ PresentationAssembled
    \/ PresentationSaved
    \/ PresentationFails
    \/ RemoveTask
    \/ ClearCompletedTasks

SpecTasks == InitTasks /\ [][NextTasks]_vars

\* A step of a detached coroutine.
JobStep ==
    \/ VideoOperationStarts
    \/ VideoPoll
    \/ VideoFails
    \/ PresentationOutline
    \/ PresentationAsset
    \/ PresentationAssembled
    \/ PresentationSaved
    \/ PresentationFails

\* The tracker with services that answer: a coroutine that can take a step
\* eventually takes one.
SpecTasksFair == SpecTasks /\ WF_vars(JobStep)

(***************************************************************************)
(* Specification of the session and of its keep-alive driver               *)
(***************************************************************************)
InitSession ==
    /\ Init
    /\ user = "admin"
    /\ tools = {"search_web"}

NextSession ==
    \/ Connect
    \/ Disconnect
    \/ TransportOpens
    \/ TransportCloses
    \/ KeepAliveEffect
    \/ AudioContextResolves

SpecSession == InitSession /\ [][NextSession]_vars

(***************************************************************************)
(* Specification of the webhook executor: toolcall events with calls of    *)
(* webhook tools, for every user.                                          *)
(***************************************************************************)
WebhookSeqs == UNION {[1..n -> WebhookNames] : n \in 1..MaxCalls}

OnToolCallWebhook == \E names \in WebhookSeqs : OnToolCallWith(names)

NextWebhook ==
    \/ OnToolCallWebhook
    \/ ExecutorReturns

SpecWebhook == Init /\ [][NextWebhook]_vars

(***************************************************************************)
(* Specification of one poller                                             *)
(***************************************************************************)
\* The session with its audio in both directions.
NextAudio ==
    \/ Connect
    \/ Disconnect
    \/ TransportOpens
    \/ TransportCloses
    \/ AudioOutResolves
    \/ OnAudio
    \/ Interrupted
    \/ PlaybackEnds
    \/ RecorderEffect

SpecAudio == InitSession /\ [][NextAudio]_vars

\* The session with its keep-alive interval and its recorder.
NextKeepAlive ==
    \/ Connect
    \/ Disconnect
    \/ TransportOpens
    \/ TransportCloses
    \/ KeepAliveEffect
    \/ RecorderEffect
    \/ RecorderData
    \/ KeepAliveTick

SpecKeepAlive == InitSession /\ [][NextKeepAlive]_vars

\* One session with the audio the backend sends and its interruptions.
NextSink ==
    \/ ConnectOnce
    \/ TransportOpens
    \/ TransportCloses
    \/ AudioOutResolves
    \/ AudioEvent
    \/ InterruptedEvent
    \/ ChunkPlayed

SpecSink == InitSession /\ [][NextSink]_vars

\* The binding effect, over reconnects of the session.
NextListeners ==
    \/ EffectMounts
    \/ EffectReruns
    \/ EffectUnmounts
    \/ Connect
    \/ Disconnect
    \/ TransportOpens
    \/ TransportCloses

SpecListeners == InitSession /\ [][NextListeners]_vars

\* The paid tools of a signed-in user, their calls running side by side.
InitTokens == Init /\ user = "other" /\ tools = {"search_web"}

NextTokens ==
    \/ LoadTokens
    \/ ToolCallPaid
    \/ PaidGenerated
    \/ PaidSaved
    \/ PaidFails
    \/ PresentationOutline
    \/ PresentationAsset
    \/ PresentationAssembled
    \/ PresentationSaved
    \/ PresentationFails

SpecTokens == InitTokens /\ [][NextTokens]_vars

\* The settings page working on the tool store.
NextTools ==
    \/ ToggleTool
    \/ AddTool
    \/ RemoveTool
    \/ UpdateTool

SpecTools == InitSession /\ [][NextTools]_vars

\* The ledger fed with input transcription deltas only.
InitHello == Init /\ user = "other" /\ tools = {"search_web"}

NextHello == HelloTranscription

SpecHello == InitHello /\ [][NextHello]_vars

\* The dispatcher fed with batches that may repeat a call id.
NextRepeated ==
    \/ OnToolCallAnyIds
    \/ ExecutorReturns
    \/ HandleConfirm
    \/ HandleCancel

SpecRepeated == Init /\ [][NextRepeated]_vars

NextPoller ==
    \/ PollForResult
    \/ PollTick
    \/ PollResponse

SpecPoller == InitSession /\ [][NextPoller]_vars

(***************************************************************************)
(* Properties of the dispatcher                                            *)
(***************************************************************************)
Calls(b) == batches[b].calls
CallIdx(b) == 1..Len(batches[b].calls)
SentFor(b) == {k \in 1..Len(sent) : sent[k].batch = b}
IdCount(seq, id) == Cardinality({k \in 1..Len(seq) : seq[k].id = id})

\* C1: for every batch, client.sendToolResponse is called at most once, and
\* the list it sends has exactly N entries, one per request id of the batch.
C1_AggregateSentOnceWithAllIds ==
    \A b \in 1..Len(batches) :
        /\ Cardinality(SentFor(b)) <= 1
        /\ \A k \in SentFor(b) :
            /\ Len(sent[k].functionResponses) = Len(Calls(b))
            /\ \A i \in CallIdx(b) :
                 IdCount(sent[k].functionResponses, Calls(b)[i].id)
                    = IdCount(Calls(b), Calls(b)[i].id)

\* A batch of two calls was answered, and the calls finished in the reverse
\* of the order they were requested in.
C1_Witness ==
    \E k \in 1..Len(sent) :
        /\ Len(sent[k].functionResponses) = 2
        /\ sent[k].functionResponses[1].id = Calls(sent[k].batch)[2].id
        /\ sent[k].functionResponses[2].id = Calls(sent[k].batch)[1].id

\* C2: every request is answered.  A batch all of whose requests are resolved
\* (every response entry collected) has had its aggregate response sent.
C2_ResolvedBatchIsAnswered ==
    \A b \in 1..Len(batches) :
        Len(batches[b].functionResponses) = Len(Calls(b)) => SentFor(b) # {}

\* C3: an admin-only call issued while the caller is not the administrator is
\* never executed: no executor, no system turn, no confirmation, no task; it
\* gets the 'restricted to administrators' response entry.
C3_AdminOnlyNeverExecuted ==
    \A b \in 1..Len(batches) : \A i \in CallIdx(b) :
        (Calls(b)[i].name \in ADMIN_ONLY_TOOLS /\ ~IsAdminEmail(user)) =>
            /\ batches[b].exec[i] = 0
            /\ \A k \in 1..Len(turns) : turns[k].toolUseRequest # <<Calls(b)[i]>>
            /\ confirmation # [kind |-> "tool", batch |-> b, idx |-> i]
            /\ tasks = <<>>
            /\ \E k \in 1..Len(batches[b].functionResponses) :
                 batches[b].functionResponses[k] = Response(Calls(b)[i], RestrictedMsg)

\* C4: no requested confirmation is dropped or replaced: every call whose
\* confirmation was requested and not yet approved or denied is still held by
\* the confirmation gate.
C4_NoConfirmationDropped ==
    \A b \in 1..Len(batches) : \A i \in CallIdx(b) :
        batches[b].status[i] = "awaiting" =>
            confirmation = [kind |-> "tool", batch |-> b, idx |-> i]

\* C5: denying the confirmation of a sensitive call adds exactly one response
\* entry 'The user cancelled the action.' for that call id, starts no executor
\* for the call, then or later, and clears the pending confirmation.
C5_DenyCancelsWithoutExecuting ==
    /\ [][\A b \in 1..Len(batches) : \A i \in CallIdx(b) :
            (batches[b].status[i] = "awaiting" /\ batches'[b].status[i] = "cancelled") =>
                /\ batches'[b].functionResponses =
                       Append(batches[b].functionResponses,
                              Response(Calls(b)[i], CancelledMsg))
                /\ batches'[b].exec = batches[b].exec
                /\ confirmation' = NoConfirmation]_vars
    /\ [](\A b \in 1..Len(batches) : \A i \in CallIdx(b) :
            batches[b].status[i] = "cancelled" =>
                /\ batches[b].exec[i] = 0
                /\ IdCount(batches[b].functionResponses, Calls(b)[i].id) = 1)

\* A sensitive call was denied and its batch, of two calls, was answered.
C5_Witness ==
    \E b \in 1..Len(batches) : \E i \in CallIdx(b) :
        /\ batches[b].status[i] = "cancelled"
        /\ Len(Calls(b)) = 2
        /\ SentFor(b) # {}

\* C6: the executor of a sensitive call starts only after the user approved
\* the confirmation requested for that very call, and starts once.
C6_SensitiveRunsOnlyAfterApproval ==
    \A b \in 1..Len(batches) : \A i \in CallIdx(b) :
        Calls(b)[i].name \in SENSITIVE_TOOLS =>
            /\ batches[b].exec[i] > 0 => <<b, i>> \in approved
            /\ batches[b].status[i] \in {"running", "done"} => <<b, i>> \in approved
            /\ batches[b].exec[i] <= 1

\* A sensitive call was approved and its executor returned, while another
\* sensitive call is still waiting for its own confirmation.
C6_Witness ==
    \E b \in 1..Len(batches) : \E i \in CallIdx(b) :
        /\ Calls(b)[i].name \in SENSITIVE_TOOLS
        /\ <<b, i>> \in approved
        /\ batches[b].status[i] = "done"
        /\ \E c \in 1..Len(batches) : \E j \in CallIdx(c) :
             /\ <<c, j>> # <<b, i>>
             /\ batches[c].status[j] = "awaiting"
             /\ batches[c].exec[j] = 0

(***************************************************************************)
(* Properties of the turn ledger                                           *)
(***************************************************************************)
OpenTurns(ts, role) == {k \in 1..Len(ts) : ts[k].role = role /\ ~ts[k].isFinal}

\* C7: after handleTurnComplete has processed a turn-complete event the
\* ledger contains no turn with isFinal = false.
C7_TurnCompleteLeavesNoOpenTurn ==
    [][TurnComplete => \A k \in 1..Len(turns') : turns'[k].isFinal]_vars

\* C8: in every reachable state, for each role at most one turn of that role
\* has isFinal = false.
C8_AtMostOneOpenTurnPerRole ==
    \A role \in {"user", "agent", "system"} : Cardinality(OpenTurns(turns, role)) <= 1

\* C9: chunking invariance.  After a run of deltas of one role that ends with
\* a final delta, with no other event in between, the ledger is the one that
\* the whole text delivered as a single final delta leaves.
C9_ChunkingInvariance ==
    (utt.active /\ utt.closed) =>
        turns = IF utt.role = "user"
                THEN handleInputTranscription(utt.base, utt.text, TRUE)
                ELSE handleOutputTranscription(utt.base, utt.text, TRUE)

\* A user utterance of two characters arrived as two deltas of one character,
\* the last final, behind an earlier turn.
C9_Witness ==
    /\ utt.active /\ utt.closed
    /\ utt.role = "user"
    /\ utt.text = <<"a", "b">>
    /\ utt.base # <<>>

\* C10: no step changes a turn that is final, nor a turn that is not the
\* last one: such a turn keeps its place, role, text, citations and flag.
C10_FinalTurnsAreImmutable ==
    [][\A k \in 1..Len(turns) :
          (turns[k].isFinal \/ k < Len(turns)) =>
              (k <= Len(turns') /\ turns'[k] = turns[k])]_vars

\* A delta arrived for the role of the last, final, turn and opened a new
\* turn behind it.
C10_Witness ==
    \E k \in 1..Len(turns) - 1 :
        /\ turns[k].isFinal
        /\ turns[k].role = turns[k + 1].role
        /\ turns[k].role \in {"user", "agent"}
        /\ ~turns[k + 1].isFinal

(***************************************************************************)
(* Properties of the background task tracker                               *)
(***************************************************************************)
TerminalStatus == {"completed", "failed"}

TaskIdx == 1..Len(tasks)

Last(seq) == seq[Len(seq)]

\* The progress values of a coroutine never go down and stay within 0..100.
MonotoneInRange(seen) ==
    \A k \in 1..Len(seen) :
        /\ Leq(Pct(0), seen[k])
        /\ Leq(seen[k], Pct(100))
        /\ k > 1 => Leq(seen[k - 1], seen[k])

\* C11: while a background task is running its progress is non-decreasing
\* and within 0..100, for the video and for the presentation coroutine and
\* across every update either of them applies; the progress of a listed
\* running task is the last value its coroutine gave it.
C11_ProgressMonotoneInRange ==
    /\ \A id \in DOMAIN jobs : MonotoneInRange(jobs[id].seen)
    /\ \A k \in TaskIdx :
          tasks[k].status = "running" => tasks[k].progress = Last(jobs[tasks[k].id].seen)

\* A video task still running at the cap of 90 next to a presentation task
\* still running at 95, each after its series of updates.
C11_Witness ==
    \E k, l \in TaskIdx :
        /\ tasks[k].name = "generate_video"
        /\ tasks[k].status = "running"
        /\ tasks[k].progress = Pct(90)
        /\ jobs[tasks[k].id].polls >= 6
        /\ tasks[l].name = "create_business_presentation"
        /\ tasks[l].status = "running"
        /\ tasks[l].progress = Pct(95)
        /\ jobs[tasks[l].id].step = 4

\* The task is still listed, terminal, with the same result.
Kept(t) ==
    \E k \in 1..Len(tasks') :
        /\ tasks'[k].id = t.id
        /\ tasks'[k].result = t.result
        /\ tasks'[k].status \in TerminalStatus

\* C12: a task that is completed or failed stays in the task list with its
\* result unchanged over every step other than removeTask(id) for it and
\* clearCompletedTasks(); clearCompletedTasks() leaves every running task in
\* the list as it is.
C12_TerminalTasksAreRetained ==
    /\ [][\A k \in TaskIdx :
            tasks[k].status \in TerminalStatus =>
                \/ Kept(tasks[k])
                \/ tasks' = removeTask(tasks, tasks[k].id)
                \/ ClearCompletedTasks]_vars
    /\ [][ClearCompletedTasks =>
            \A k \in TaskIdx :
                tasks[k].status = "running" =>
                    \E l \in 1..Len(tasks') : tasks'[l] = tasks[k]]_vars

\* A completed video task is listed with its download while the session
\* has been closed, the presentation has gone on to 95, and a clear would
\* remove the one and keep the other.
C12_Witness ==
    \E k, l \in TaskIdx :
        /\ tasks[k].status = "completed"
        /\ tasks[k].result = "download"
        /\ tasks[l].status = "running"
        /\ tasks[l].progress = Pct(95)
        /\ sessionLog.disconnectChimes > 0
        /\ client.status = "disconnected"
        /\ Len(clearCompletedTasks(tasks)) = 1

(***************************************************************************)
(* Properties of the session and of the keep-alive driver                  *)
(***************************************************************************)
\* C13: at most one transport session is open or opening at any time, and
\* it is the one the client holds, also when connect() is called while an
\* earlier connect() still waits for its open event.
C13_AtMostOneLiveSession ==
    /\ Cardinality(transport) <= 1
    /\ transport \subseteq {client.session}

\* A second connect() was issued while the first waited for its open event,
\* and its session is now opening.
C13_Witness ==
    /\ sessionLog.overlapped
    /\ sessionLog.opens = 2
    /\ client.status = "connecting"
    /\ transport = {2}

\* The session is idle: the client has no transport session and the hook
\* is not connected.
Idle == client.status = "disconnected" /\ client.session = 0 /\ ~connected

DisconnectCalled == sessionLog'.disconnectCalls # sessionLog.disconnectCalls

\* C14: disconnect() called while the session is idle changes neither the
\* session, nor the keep-alive driver, nor the turn ledger, and plays no
\* disconnect chime; every disconnect() leaves the session idle, so a second
\* call right after the first changes nothing more.
C14_DisconnectIsIdempotent ==
    /\ [][DisconnectCalled /\ Idle =>
            /\ UNCHANGED <<client, transport, connected, driver, turns>>
            /\ sessionLog'.disconnectChimes = sessionLog.disconnectChimes
            /\ sessionLog'.connectChimes = sessionLog.connectChimes
            /\ sessionLog'.opens = sessionLog.opens]_vars
    /\ [][DisconnectCalled => Idle']_vars

\* disconnect() has been called twice on one session and one chime was
\* played: a call found the session idle.
C14_Witness ==
    /\ sessionLog.connectCalls = 1
    /\ sessionLog.disconnectCalls = 2
    /\ sessionLog.disconnectChimes = 1
    /\ Idle

ConnectCalled == sessionLog'.connectCalls # sessionLog.connectCalls

\* C15: no automatic reconnection.  A transport session is opened only by a
\* step in which the caller invokes connect(); once the client is without a
\* session, after a close or error of the transport or after disconnect(),
\* it stays so and the hook stays not connected until such a step.
C15_NoAutomaticReconnection ==
    /\ [][sessionLog'.opens # sessionLog.opens => ConnectCalled]_vars
    /\ [][client.status = "disconnected" =>
            \/ client'.status = "disconnected" /\ ~connected'
            \/ ConnectCalled]_vars

\* The transport closed a connected session, no disconnect() was called,
\* and the session is idle with no session opened since.
C15_Witness ==
    /\ sessionLog.connectCalls = 1
    /\ sessionLog.opens = 1
    /\ sessionLog.connectChimes = 1
    /\ sessionLog.disconnectChimes = 1
    /\ sessionLog.disconnectCalls = 0
    /\ Idle

\* The effect has run for the present value of `connected`.
EffectHasRun == driver.effect = connected

AtMostOneOfEach ==
    driver.keepAlives <= 1 /\ driver.loops <= 1 /\ driver.favicons <= 1

\* C16: whenever the session is not connected and the stop of the driver
\* has run for it, no keep-alive interval, no silent audio loop and no
\* favicon ticker is running, whenever the audio context promise resolves;
\* and there is never more than one instance of any of the three.
C16_DriverStoppedAfterLeavingConnected ==
    /\ AtMostOneOfEach
    /\ ~connected /\ EffectHasRun =>
          driver.keepAlives = 0 /\ driver.loops = 0 /\ driver.favicons = 0

(***************************************************************************)
(* Properties of the executors                                             *)
(***************************************************************************)
\* C17: a failure inside the execution of one call never escapes
\* executeTool as an exception; a call whose execution has ended has its one
\* entry among the responses of its batch.
C17_FailuresBecomeErrorEntries ==
    \A b \in 1..Len(batches) : \A i \in CallIdx(b) :
        /\ batches[b].status[i] # "threw"
        /\ batches[b].exec[i] > 0 /\ batches[b].status[i] \notin {"running", "returning"} =>
              IdCount(batches[b].functionResponses, Calls(b)[i].id) = 1

\* Task k of the list is not completed and is completed after the step.
BecomesCompleted(k) ==
    /\ tasks[k].status # "completed"
    /\ \E l \in 1..Len(tasks') :
          tasks'[l].id = tasks[k].id /\ tasks'[l].status = "completed"

StartedMsgOf(name) ==
    IF name = "generate_video" THEN VideoStartedMsg ELSE PresentationStartedMsg

\* The 'started' response of a call of that tool has been sent.
StartedWasSent(name) ==
    \E n \in 1..Len(sent) : \E r \in 1..Len(sent[n].functionResponses) :
        /\ sent[n].functionResponses[r].name = name
        /\ sent[n].functionResponses[r].result = StartedMsgOf(name)

JobIds == 1..Cardinality(BackgroundTools)

\* Coroutine id is under way and the client has no connected session.
RunsDisconnected(id) ==
    /\ id \in DOMAIN jobs
    /\ jobs[id].pc # "done"
    /\ client.status # "connected"

\* Coroutine id has ended and its task, if still listed, is terminal.
HasEnded(id) ==
    /\ id \in DOMAIN jobs
    /\ jobs[id].pc = "done"
    /\ \A k \in TaskIdx : tasks[k].id = id => tasks[k].status \in TerminalStatus

\* The session goes from having a transport session to having none.
SessionEnds == client.session # 0 /\ client'.session = 0

\* C19: the end of the session, by disconnect() or by the transport, leaves
\* the task list and the coroutines as they are, and a coroutine that is
\* under way without a connected session goes on to its end, with its task
\* completed or failed.
C19_TasksSurviveDisconnect ==
    /\ [][SessionEnds \/ DisconnectCalled => UNCHANGED <<tasks, jobs>>]_vars
    /\ \A id \in JobIds : RunsDisconnected(id) ~> HasEnded(id)

\* The one session of the run, in which both generations were started, has
\* been ended by disconnect(); the video task is still running, listed with
\* the progress of its polls, and the presentation task has completed.
C19_Witness ==
    \E k, l \in TaskIdx :
        /\ sessionLog.disconnectCalls = 1
        /\ sessionLog.disconnectChimes = 1
        /\ client.status = "disconnected"
        /\ RunsDisconnected(tasks[k].id)
        /\ tasks[k].name = "generate_video"
        /\ tasks[k].status = "running"
        /\ tasks[k].progress = Pct(40)
        /\ tasks[l].status = "completed"
        /\ tasks[l].result = "view"

(***************************************************************************)
(* Properties of the poller                                                *)
(***************************************************************************)
\* C20: a poller issues at most maxAttempts status requests, however the
\* status endpoint behaves, and once it has issued them all and no terminal
\* status was seen its next tick stops the timer with a timeout notice.
C20_PollerStopsWithinMaxAttempts ==
    /\ poller.requests <= maxAttempts
    /\ ~poller.timer /\ poller.started => Len(poller.notices) >= 1

\* The step in which the poller clears its interval: it saw a terminal status
\* or found its attempts exhausted.
PollerStops == poller.timer /\ ~poller'.timer

RECURSIVE ExecCountFrom(_, _, _)
ExecCountFrom(b, id, i) ==
    IF i > Len(batches[b].calls) THEN 0
    ELSE (IF batches[b].calls[i].id = id THEN batches[b].exec[i] ELSE 0)
         + ExecCountFrom(b, id, i + 1)

\* C22: for every call id of a batch, repeated in the batch or not, and
\* however often its confirmation is approved, the executor is invoked at
\* most once and the aggregate response holds at most one entry for the id.
C22_NoCallIdExecutedTwice ==
    \A b \in 1..Len(batches) : \A i \in CallIdx(b) :
        /\ ExecCountFrom(b, Calls(b)[i].id, 1) <= 1
        /\ IdCount(batches[b].functionResponses, Calls(b)[i].id) <= 1

\* The batches made of one call that needs no confirmation followed by one
\* sensitive call.
MixedBatches ==
    {b \in 1..Len(batches) :
        /\ Len(Calls(b)) = 2
        /\ Calls(b)[1].name \notin SENSITIVE_TOOLS
        /\ Calls(b)[2].name \in SENSITIVE_TOOLS}

\* C23: in a batch of a non-sensitive call followed by a sensitive call, the
\* entry of the first call is collected as soon as its execution ends, the
\* entry of the second is withheld and nothing is sent while its confirmation
\* is unresolved, and once the confirmation is resolved and both calls have
\* ended the aggregate response has been sent exactly once, with both entries.
C23_MixedBatchWaitsForConfirmation ==
    \A b \in MixedBatches :
        LET st == batches[b].status
            fr == batches[b].functionResponses
        IN /\ st[1] \in {"done", "restricted"} => IdCount(fr, Calls(b)[1].id) = 1
           /\ st[2] = "awaiting" =>
                 /\ IdCount(fr, Calls(b)[2].id) = 0
                 /\ batches[b].exec[2] = 0
                 /\ SentFor(b) = {}
           /\ Cardinality(SentFor(b)) <= 1
           /\ st[1] \in {"done", "restricted"} /\ st[2] \in {"done", "cancelled"} =>
                 \E k \in SentFor(b) :
                     /\ Len(sent[k].functionResponses) = 2
                     /\ \A i \in 1..2 :
                          IdCount(sent[k].functionResponses, Calls(b)[i].id) = 1

\* The first call ended while the confirmation of the second was pending,
\* the confirmation was then denied, and the aggregate was sent.
C23_Witness ==
    \E b \in MixedBatches :
        /\ batches[b].status[1] = "done"
        /\ batches[b].exec[1] = 1
        /\ batches[b].status[2] = "cancelled"
        /\ batches[b].functionResponses[1].id = Calls(b)[1].id
        /\ SentFor(b) # {}

(***************************************************************************)
(* Properties of the turn ledger, continued                                *)
(***************************************************************************)
HelloWorld == <<"H", "e", "l", "l", "o", " ", "w", "o", "r", "l", "d">>

\* C24: a transcript delta with isFinal = true finalizes the open turn in the
\* step that receives it.  After the deltas "Hel", "lo " (not final) and
\* "world" (final) on an empty ledger there is exactly one user turn,
\* "Hello world", final; and a delta received while the last turn is final
\* leaves that turn alone and opens a new turn behind it.
C24_FinalDeltaFinalizesInTheSameStep ==
    /\ [](utt.active =>
            /\ Last(turns).role = "user"
            /\ Last(turns).isFinal = utt.closed)
    /\ []((utt.active /\ utt.base = <<>> /\ utt.text = HelloWorld /\ utt.closed) =>
            turns = <<Turn("user", HelloWorld, TRUE, <<>>, <<>>)>>)
    /\ [][(turns # <<>> /\ Last(turns).isFinal /\ turns' # turns) =>
            /\ Len(turns') = Len(turns) + 1
            /\ SubSeq(turns', 1, Len(turns)) = turns
            /\ Last(turns').role = "user"]_vars

\* "Hello world" was finalized as one turn and a further delta opened a
\* second turn.
C24_Witness ==
    /\ Len(turns) = 2
    /\ turns[1] = Turn("user", HelloWorld, TRUE, <<>>, <<>>)
    /\ turns[2].role = "user"
    /\ turns[2].text = <<"H", "e", "l">>

(***************************************************************************)
(* Properties of the background tasks, continued                           *)
(***************************************************************************)
\* The step in which a task is created: addTask puts it on top of the list.
TaskCreated == Len(tasks') = Len(tasks) + 1

\* C25 as stated: every background task is created with status running and
\* progress 0.
C25_TasksStartRunningAtZero ==
    [][TaskCreated =>
         /\ Head(tasks').status = "running"
         /\ Head(tasks').progress = Pct(0)]_vars

\* C25 amended: every background task is created with status running and no
\* result; a presentation task starts at progress 0 and a video task at
\* progress 5.
C25_TasksStartRunning ==
    [][TaskCreated =>
         /\ Head(tasks').status = "running"
         /\ Head(tasks').result = "none"
         /\ Head(tasks').id \notin {tasks[k].id : k \in 1..Len(tasks)}
         /\ Tail(tasks') = tasks
         /\ Head(tasks').progress =
               IF Head(tasks').name = "generate_video" THEN Pct(5) ELSE Pct(0)]_vars

\* Both kinds of task have just been created and neither has reported yet.
C25_Witness ==
    /\ Len(tasks) = 2
    /\ \E k \in 1..2 : tasks[k].name = "generate_video" /\ tasks[k].progress = Pct(5)
    /\ \E k \in 1..2 : /\ tasks[k].name = "create_business_presentation"
                       /\ tasks[k].progress = Pct(0)
    /\ \A id \in DOMAIN jobs : jobs[id].pc = "start"

\* C26: removeTask never removes a running task: a task that is running
\* before a step is still listed after it, so the record of an execution
\* that is still reporting is always there.
C26_RunningTasksAreNeverRemoved ==
    [][\A k \in 1..Len(tasks) :
          tasks[k].status = "running" =>
              \E j \in 1..Len(tasks') : tasks'[j].id = tasks[k].id]_vars

(***************************************************************************)
(* Properties of the session, continued                                    *)
(***************************************************************************)
\* C27: a disconnect() called while the client is connected leaves, in that
\* step, the transport closed, connected = false, the disconnect chime
\* played once and the streamer silent; and once the recorder effect has run
\* for connected = false the recorder is stopped.
C27_DisconnectTearsEverythingDown ==
    /\ [][(DisconnectCalled /\ client.status = "connected") =>
            /\ transport' = {}
            /\ client'.status = "disconnected"
            /\ ~connected'
            /\ sessionLog'.disconnectChimes = sessionLog.disconnectChimes + 1
            /\ ~audio'.playing]_vars
    /\ []((~connected /\ audio.effect = connected) => ~audio.recording)

\* The merge rule: ts2 is ts with a delta of `role` merged in.  The delta is
\* appended to the last turn when that turn has the role and is not final,
\* and is one new turn behind the others otherwise; the turns before the
\* last are as they were.
MergedInto(ts, ts2, role, text, chunks) ==
    IF CanAppend(ts, role)
    THEN /\ Len(ts2) = Len(ts)
         /\ SubSeq(ts2, 1, Len(ts) - 1) = SubSeq(ts, 1, Len(ts) - 1)
         /\ Last(ts2).role = role
         /\ Last(ts2).text = Last(ts).text \o text
         /\ Last(ts2).groundingChunks = Last(ts).groundingChunks \o chunks
         /\ Last(ts2).toolUseRequest = Last(ts).toolUseRequest
    ELSE /\ Len(ts2) = Len(ts) + 1
         /\ SubSeq(ts2, 1, Len(ts)) = ts
         /\ Last(ts2).role = role
         /\ Last(ts2).text = text
         /\ Last(ts2).groundingChunks = chunks

\* C28: the input-transcript, output-transcript and content handlers merge
\* by one rule, whatever the ledger they find: append to the last turn when
\* it has the delta's role and is not final (text concatenated, citations
\* appended), else append exactly one new turn; no other turn is touched;
\* and a content event with neither text nor citations changes nothing.
C28_OneMergeRuleForAllStreams ==
    /\ \A text \in Deltas : \A isFinal \in BOOLEAN :
          /\ MergedInto(turns, handleInputTranscription(turns, text, isFinal),
                        "user", text, <<>>)
          /\ MergedInto(turns, handleOutputTranscription(turns, text, isFinal),
                        "agent", text, <<>>)
    /\ \A parts \in ContentParts : \A gc \in GroundingChunks :
          IF JoinParts(parts) = <<>> /\ gc = <<>>
          THEN handleContent(turns, parts, gc) = turns
          ELSE MergedInto(turns, handleContent(turns, parts, gc),
                          "agent", JoinParts(parts), gc)

\* An agent turn that was opened by one delta and extended by a content
\* event: its text is two deltas with no separator between them.
C28_Witness ==
    /\ turns # <<>>
    /\ Last(turns).role = "agent"
    /\ ~Last(turns).isFinal
    /\ Last(turns).text = <<"a", "b">>
    /\ ~utt.active

(***************************************************************************)
(* Properties of the dispatcher: the log of accepted calls                 *)
(***************************************************************************)
\* The turns that log the call fc: final system turns carrying the request.
LogTurnsOf(fc) ==
    {k \in 1..Len(turns) :
        /\ turns[k].role = "system"
        /\ turns[k].isFinal
        /\ turns[k].toolUseRequest = <<fc>>}

\* C29: every accepted call has exactly one final system turn carrying its
\* request, present whenever its executor has started or its confirmation
\* is requested; a restricted call has none.
C29_AcceptedCallsAreLoggedOnce ==
    \A b \in 1..Len(batches) : \A i \in CallIdx(b) :
        LET fc == Calls(b)[i]
        IN /\ Cardinality(LogTurnsOf(fc)) =
                 IF IsRestricted(user, fc.name) THEN 0 ELSE 1
           /\ batches[b].status[i] = "restricted" <=> IsRestricted(user, fc.name)
           /\ batches[b].exec[i] > 0 => LogTurnsOf(fc) # {}
           /\ (confirmation.kind = "tool" /\ confirmation.batch = b
                  /\ confirmation.idx = i) => LogTurnsOf(fc) # {}

\* One batch with a restricted call and an accepted sensitive call whose
\* confirmation is requested: the ledger holds the log of the second only.
C29_Witness ==
    \E b \in 1..Len(batches) :
        /\ Len(Calls(b)) = 2
        /\ batches[b].status[1] = "restricted"
        /\ batches[b].status[2] = "awaiting"
        /\ confirmation.kind = "tool" /\ confirmation.batch = b
        /\ Len(turns) = 1
        /\ turns[1].toolUseRequest = <<Calls(b)[2]>>

(***************************************************************************)
(* Properties of the dispatcher: the strategy of a tool name               *)
(***************************************************************************)
\* Every tool name the tables and the chain of executeTool know of, and the
\* webhook tools of the model.
KnownNames ==
    SENSITIVE_TOOLS \cup NATIVE_GEMINI_TOOLS \cup ADMIN_ONLY_TOOLS
    \cup DedicatedNames \cup WebhookNames \cup MEMORY_TOOLS

\* The four sets of the strategy table that contain a name.
StrategySetsOf(name) ==
    {s \in {"admin", "sensitive", "native", "background"} :
        \/ s = "admin" /\ name \in ADMIN_ONLY_TOOLS
        \/ s = "sensitive" /\ name \in SENSITIVE_TOOLS
        \/ s = "native" /\ name \in NATIVE_GEMINI_TOOLS
        \/ s = "background" /\ name \in BackgroundTools}

\* The results an executor can answer with.
ResultsOf(executor) ==
    IF executor = "native" THEN {NativeMsg}
    ELSE IF executor = "executeVideoGenerationTool" THEN {VideoStartedMsg}
    ELSE IF executor = "executePresentationGenerationTool"
      THEN {PresentationStartedMsg, NoTokensMsg}
    ELSE IF executor = "executeWebhookTool" THEN {OkMsg, ErrorMsg, NotConfiguredMsg}
    ELSE {OkMsg, ErrorMsg}

\* Every call is handed to at most one executor, a restricted one to none,
\* and the entry of a call that was executed is an answer of the executor
\* that the chain selects for its name.
OneExecutorPerCall ==
    \A b \in 1..Len(batches) : \A i \in CallIdx(b) :
        /\ batches[b].exec[i] <= 1
        /\ batches[b].status[i] = "restricted" => batches[b].exec[i] = 0
        /\ batches[b].status[i] = "done" =>
              \E k \in 1..Len(batches[b].functionResponses) :
                  /\ batches[b].functionResponses[k].id = Calls(b)[i].id
                  /\ batches[b].functionResponses[k].result
                        \in ResultsOf(ExecutorOf(Calls(b)[i].name))

SilentFrameSent == wire'.silent = wire.silent + 1

\* C31 as stated: a silent frame is sent only while the client is connected
\* and only when no other frame was sent since the previous tick.
C31_SilentFrameOnlyWhenIdle ==
    [][SilentFrameSent =>
         /\ client.status = "connected"
         /\ ~wire.other]_vars

\* C31 amended: a tick of the keep-alive interval sends a silent frame
\* exactly when the client is connected, whatever else was sent since the
\* previous tick, and no silent frame is sent while it is not connected.
C31_SilentFrameOnEveryConnectedTick ==
    [][/\ wire'.ticks # wire.ticks =>
            (SilentFrameSent <=> client.status = "connected")
       /\ wire'.silent # wire.silent =>
            /\ wire'.ticks = wire.ticks + 1
            /\ client.status = "connected"
            /\ client.session \in transport]_vars

\* One tick found the client connected and sent its frame, another found it
\* not connected, the interval still armed, and sent nothing.
C31_Witness ==
    /\ wire.ticks = 2
    /\ wire.silent = 1

(***************************************************************************)
(* Properties of the playback sink                                         *)
(***************************************************************************)
\* C32: the chunks are played in the order they arrived in, every chunk still
\* queued arrived after the last interrupted event, and so no chunk that
\* arrived before an interrupted event is played after one that arrived
\* after it.
C32_InterruptFlushesBeforeLaterChunks ==
    /\ \A i, j \in 1..Len(sink.played) :
          i < j => /\ sink.played[i].n < sink.played[j].n
                   /\ sink.played[i].after <= sink.played[j].after
    /\ \A i, j \in 1..Len(sink.queue) :
          i < j => sink.queue[i].n < sink.queue[j].n
    /\ \A i \in 1..Len(sink.queue) :
          /\ sink.queue[i].after = sink.interrupts
          /\ \A j \in 1..Len(sink.played) : sink.played[j].n < sink.queue[i].n

\* A chunk was played, the next one was flushed by an interrupted event
\* before it was played, and a chunk that arrived after the event was played.
C32_Witness ==
    /\ Len(sink.played) = 2
    /\ sink.played[1] = [n |-> 1, after |-> 0]
    /\ sink.played[2] = [n |-> 3, after |-> 1]

(***************************************************************************)
(* Properties of the handler registration                                  *)
(***************************************************************************)
\* C33: while the component is mounted each of the nine transport events has
\* exactly one handler registered, that of the current run of the effect on
\* the current client object, and no client object holds any other; after
\* unmount no handler is registered anywhere.
C33_HandlersExactlyPaired ==
    \A c \in ClientObjects : \A e \in TransportEvents :
        listeners.reg[c][e] =
            IF listeners.mounted /\ c = listeners.of
            THEN <<listeners.run>> ELSE <<>>

\* The effect has run three times, the last time for another client object,
\* over a reconnect of the session.
C33_Witness ==
    /\ listeners.mounted
    /\ listeners.run = 3
    /\ listeners.of = 2
    /\ sessionLog.connectCalls = 2

(***************************************************************************)
(* Properties of the background tasks: terminal statuses                   *)
(***************************************************************************)
\* C34: a terminal status is absorbing: a task that is completed or failed
\* before a step has the same status after it, for as long as it is listed.
C34_TerminalStatusIsAbsorbing ==
    [][\A k \in 1..Len(tasks) : \A j \in 1..Len(tasks') :
          (tasks[k].status \in TerminalStatus /\ tasks'[j].id = tasks[k].id) =>
              tasks'[j].status = tasks[k].status]_vars

(***************************************************************************)
(* Properties of the poller, continued                                     *)
(***************************************************************************)
\* C35: a poller delivers at most one outcome notification, exactly one once
\* its timer is cleared, and issues no status request after it.
C35_AtMostOneOutcome ==
    /\ [](Len(poller.notices) <= 1)
    /\ []((poller.started /\ ~poller.timer) => Len(poller.notices) = 1)
    /\ [][poller.notices # <<>> => poller'.requests = poller.requests]_vars

(***************************************************************************)
(* Properties of the token balance                                         *)
(***************************************************************************)
GatedTools == {"create_document", "create_business_presentation"}

ShortOfTokensMsg(name) ==
    IF name = "create_document" THEN DocNoTokensMsg ELSE NoTokensMsg

\* C36: a call of create_document or create_business_presentation dispatched
\* while the balance is below its cost is answered with an error response;
\* it creates no background task and no coroutine, deducts nothing and adds
\* no turn beyond the log of the call that the dispatcher writes for every
\* accepted call; and the balance is never negative.
C36_GatedToolsRefuseWithoutTokens ==
    /\ [](tokens >= 0)
    /\ [][Len(batches') = Len(batches) + 1 =>
            LET b == Len(batches')
                fc == batches'[b].calls[1]
            IN (fc.name \in GatedTools /\ tokens < CostOf(fc.name)) =>
                  /\ batches'[b].functionResponses =
                        <<Response(fc, ShortOfTokensMsg(fc.name))>>
                  /\ sent' = Append(sent, [batch |-> b,
                                           functionResponses |->
                                             batches'[b].functionResponses])
                  /\ tasks' = tasks
                  /\ jobs' = jobs
                  /\ tokens' = tokens
                  /\ turns' = addTurn(turns, TriggerTurn(fc))]_vars

\* With 30 tokens loaded an image was generated, which left 5, and a
\* document was then refused.
C36_Witness ==
    /\ paid.start = 30
    /\ tokens = 5
    /\ tasks = <<>>
    /\ \E b \in 1..Len(batches) :
         /\ Calls(b)[1].name = "create_document"
         /\ batches[b].functionResponses = <<Response(Calls(b)[1], DocNoTokensMsg)>>

\* Number of successful generations of the image or the document tool: each
\* has added its result turn.
Generated(name) ==
    Cardinality({k \in 1..Len(turns) : turns[k] = ResultTurn(name)})

\* Number of presentations that were completed.
Presented ==
    Cardinality({id \in DOMAIN jobs :
        /\ jobs[id].kind = "presentation"
        /\ Last(jobs[id].seen) = Pct(100)})

\* C37: every successful paid generation lowers the balance by exactly its
\* cost, whatever the interleaving of the calls: the balance is the one that
\* was loaded minus the costs of the successful generations.
C37_BalanceIsStartMinusCosts ==
    tokens = paid.start
             - IMAGE_TOOL_COST * Generated("generate_image")
             - DOCUMENT_TOOL_COST * Generated("create_document")
             - PRESENTATION_TOOL_COST * Presented

(***************************************************************************)
(* The tool store                                                          *)
(***************************************************************************)
\* Some tool other than search_web is enabled.
OtherToolEnabled(ts) ==
    \E i \in 1..Len(ts) : ts[i].name # "search_web" /\ ts[i].isEnabled

SearchIsExclusive(ts) == IsEnabledIn(ts, "search_web") => ~OtherToolEnabled(ts)

\* toggleTool on its own: it enables no other tool while search_web is
\* enabled, and enabling search_web leaves search_web the only enabled tool.
ToggleToolGuardsSearch ==
    [][toolStore'.op[1] = "toggleTool" =>
          LET toolName == toolStore'.op[2]
              before == toolStore.tools
              after == toolStore'.tools
          IN  /\ (/\ IsEnabledIn(before, "search_web")
                  /\ toolName # "search_web"
                  /\ ~IsEnabledIn(before, toolName)) => after = before
              /\ (toolName = "search_web" /\ ~IsEnabledIn(before, "search_web"))
                    => IsEnabledIn(after, "search_web") /\ ~OtherToolEnabled(after)]_vars

\* C38: from the default tool set on, after any sequence of toggleTool,
\* addTool, removeTool and updateTool, whenever search_web is enabled no
\* other tool of the store is enabled.
C38_WebSearchIsExclusive == SearchIsExclusive(toolStore.tools)

NamesDistinct(ts) ==
    \A i, j \in 1..Len(ts) : i # j => ts[i].name # ts[j].name

\* C39: the names of the tools in the store are pairwise distinct after any
\* sequence of addTool, removeTool, updateTool and toggleTool; addTool
\* appends one tool under a name no tool had, and updateTool with a new name
\* that another tool has leaves the store as it was.
C39_ToolNamesStayDistinct ==
    /\ [](NamesDistinct(toolStore.tools))
    /\ [][LET before == toolStore.tools
              after == toolStore'.tools
              op == toolStore'.op
          IN  /\ op[1] = "addTool" =>
                    /\ Len(after) = Len(before) + 1
                    /\ SubSeq(after, 1, Len(before)) = before
                    /\ after[Len(after)].name \notin ToolNamesOf(before)
              /\ (/\ op[1] = "updateTool"
                  /\ op[2] # op[3]
                  /\ op[3] \in ToolNamesOf(before)) => after = before]_vars

\* The editor was refused a name that another tool has, in a store where
\* addTool had to count past new_function.
C39_Witness ==
    /\ toolStore.op[1] = "updateTool"
    /\ toolStore.op[2] # toolStore.op[3]
    /\ {toolStore.op[2], toolStore.op[3]} \subseteq ToolNamesOf(toolStore.tools)
    /\ "new_function_1" \in ToolNamesOf(toolStore.tools)
    /\ Len(toolStore.tools) = 4

====
